---------------------------- MODULE Spec2Model ----------------------------
(***************************************************************************)
(* A model of kvinwang/hapi: the machine agent "happier" (Socket.IO        *)
(* client, connection loop, tunnel manager) and the indexer "hapi-search"  *)
(* (syncer, chunker, hub client, search service).                          *)
(*                                                                         *)
(* The two executables share no state.  The module holds one group of      *)
(* variables per subsystem and one specification per group; the actions of *)
(* a group leave the other groups unchanged.                               *)
(*                                                                         *)
(*   SpecSock   socket.rs: emit / emit_with_ack / writer task / reader     *)
(*   SpecWire   socket.rs: the frames connect and the reader task receive, *)
(*              character by character, and parse_sio_packet               *)
(*   SpecAgent  register.rs, main.rs, connection.rs, tunnel.rs:            *)
(*              registration, connection loop with signals and backoff,    *)
(*              disconnect forwarder, tunnel manager and the two pumps     *)
(*   SpecSync   syncer.rs, chunker.rs: initial_sync over the pages of the  *)
(*              hub's log, process_messages and chunk_messages on each     *)
(*   SpecRun    syncer.rs: Syncer::run from init_index to the live mode    *)
(*   SpecLive   syncer.rs, hub_client.rs: the session events of the live   *)
(*              mode, the session cache and the index                      *)
(*   SpecEvents hub_client.rs: the token manager and subscribe_events      *)
(*   SpecSearch search.rs: SearchService::search and compute_name_boost    *)
(*   SpecReplay syncer.rs: process_messages called twice on one list       *)
(*   SpecRebatch syncer.rs: process_messages on one list of messages,      *)
(*              in one call and split over two calls                       *)
(*   SpecTrunc  text_extract.rs: truncate_str                              *)
(*   SpecPort   connection.rs, tunnel.rs: the tunnel:open handler, from    *)
(*              the JSON payload to the port that is dialled               *)
(*   SpecChan   syncer.rs: realtime_sync, the unbounded channel between    *)
(*              the SSE handler and the processing loop                    *)
(*                                                                         *)
(* SpecSockFair, SpecAgentFair, SpecAgentPeerFree, SpecEventsFair and      *)
(* SpecChanFair add the fairness of the runtime's scheduling to SpecSock,  *)
(* SpecAgent, SpecEvents and SpecChan.                                     *)
(***************************************************************************)
EXTENDS Integers, Sequences, FiniteSets, TLC

None == "none"

\* ------------------------------------------------------------------------
\* Bounds of the model
\* ------------------------------------------------------------------------

\* number of tasks that call emit_with_ack concurrently
MaxCalls == 2
\* frames the other producers (emit, disconnect, ping responder) submit
MaxFrames == 2
\* ack frames the server sends
MaxInbound == 3
\* capacity of the socket write queue (mpsc::channel::<Message>(128)), scaled
WriteQueueCap == 2
\* tunnel ids the hub uses
MaxTunnels == 1
\* tunnel:data events the hub sends on one tunnel
MaxData == 2
\* data reads the local TCP peer feeds to one tunnel's read pump
MaxTcpIn == 1
\* capacity of the event queue (mpsc::channel(512) in main.rs), scaled
EventQueueCap == 2
\* capacity of a tunnel's write channel (mpsc::channel::<Vec<u8>>(256)), scaled
WriteChanCap == 1
\* messages in one page of the hub's log (BATCH_SIZE = 500 in the source)
MaxBatch == 3
\* pages of the hub's log
MaxPages == 2
\* events the hub's event stream delivers in live mode
MaxEvents == 2
\* largest last_sync_ts an earlier run has persisted
MaxSince == 2
\* chunks per embedding window (EMBED_BATCH_SIZE = 32 in the source), scaled
EMBED_BATCH_SIZE == 2

\* machine-alive events one keep-alive task emits
MaxAlive == 1
\* consecutive failed connects
MaxFails == 7

\* frames one loop of the socket client receives
MaxWire == 3
\* events the live mode handles while the session cache is watched
MaxLiveEvents == 4
\* tokens POST /api/auth issues
MaxTokens == 3
\* hits the engine returns for one search
MaxHits == 3
\* the largest limit and offset of a search request
MaxLimit == 2
\* messages in the list process_messages is called on twice
MaxReplay == 3
\* characters in the string given to truncate_str, and the largest max_chars
MaxStr == 5
MaxChars == 5
\* events the stream handler passes on while the live loop is watched
MaxStream == 3
\* items the event stream yields while subscribe_events is watched
MaxItems == 2
\* seconds that pass in one step of the token manager's clock
JwtTick == 180
\* the clock of the token manager stops here
MaxJwtAge == 1080

\* Scores are counted in units of 1/600, so that 0.02 * matched / total is a
\* whole number of units for every total up to 3.
ScoreUnits == 600
\* search.rs: ratio * 0.02, in units
NAME_BOOST == 12

\* hub_client.rs: const JWT_REFRESH_SECS
JWT_REFRESH_SECS == 720
\* hub_client.rs: "JWT is valid for 15 minutes", in seconds
JWT_VALID_SECS == 900
\* seconds that pass in one step of the clock while connect waits
TickSecs == 5

\* socket.rs: the deadline of the wait for the connect ack, in seconds
ACK_DEADLINE == 10
\* main.rs: const MAX_BACKOFF, in seconds
MAX_BACKOFF == 30
\* register.rs: max_delay, in seconds
max_delay == 30
\* register.rs: max_attempts
max_attempts == 60

\* chunker.rs: const TARGET_CHUNK_CHARS
TARGET_CHUNK_CHARS == 1500

VARIABLES
    \* --- socket client (socket.rs) ---
    next_id,        \* SocketClient.next_id
    ack_waiters,    \* SocketClient.ack_waiters: ack id -> the call holding the oneshot receiver
    callPc,         \* position of each emit_with_ack call
    callId,         \* the ack id the call allocated (0: none yet)
    rxSlot,         \* the call's oneshot receiver: empty, full (a payload) or closed
    write_rx,       \* content of the write queue (write_tx -> write_rx)
    writerAlive,    \* the writer task is running (write_rx not dropped)
    wire,           \* tags of the frames the writer task has written to the WebSocket, in order
    txCount,        \* number of frames the write queue has accepted so far
    readerSt,       \* reader task: "read" or "pong" (inside ping_tx.send)
    ackCount,       \* number of ack frames the reader has processed
    lastAck         \* the last ack frame processed: its id, its number, whether a waiter was found

VARIABLES
    \* --- agent: connection loop (main.rs, connection.rs) ---
    mainPc,         \* position of run()'s loop
    reader,         \* reader task of the current SocketClient: none / running / done
    initAck,        \* the reader has delivered the ack of machine-update-state
    fwd,            \* disconnect forwarder task (connection.rs:64): none / spawned /
                    \*   waiting (inside notified().await) / notified / done
    sockUp,         \* the socket's writer task is alive: emits are accepted
    ka,             \* keep-alive task: none / running
    event_rx,       \* content of the event queue (event_tx -> event_rx)
    sig,            \* a SIGINT or SIGTERM was delivered and not yet received
    backoff,        \* run()'s backoff, in seconds
    waits,          \* the sleeps of run() since the last successful connect
    sent,           \* events run() and keep_alive submitted to the current socket
    attempt,        \* register_machine: attempt (0 outside register_machine)
    delay,          \* register_machine: delay, in seconds
    registered,     \* register_machine has returned Ok
    \* --- agent: tunnel manager (tunnel.rs) ---
    mgr,            \* tunnel::run: none / recv / opening / sending / returned
    mgrEv,          \* the event tunnel::run is handling
    tunnels,        \* keys of the tunnels map
    rdPump,         \* per tunnel id: the TCP read task
    wrPump,         \* per tunnel id: the TCP write task
    wchan,          \* per tunnel id: content of the handle's write channel
    tcpOut,         \* per tunnel id: payloads written to the TCP socket, in order
    upFrames,       \* per tunnel id: the frames its read pump has submitted, in order
    tunFrames,      \* per tunnel id: the frames submitted to the socket for the id
                    \*   since the manager took its TunnelOpen, in order, up to the
                    \*   tunnel:ready; empty once the manager takes another event
    \* --- the hub and the local TCP peer ---
    hubSt,          \* per tunnel id, the hub's view: closed / opening / open / half
    hubSent,        \* per tunnel id: tunnel:data events sent since tunnel:ready
    tcpIn           \* per tunnel id: data reads delivered by the local TCP peer

VARIABLES
    \* --- socket client: the frames received (socket.rs) ---
    hsPc,           \* SocketClient::connect and the reader task: open (waits for the
                    \*   engine open packet) / ack (waits for 40<ns>) / ok (connect
                    \*   returned the client) / err (connect returned Err) /
                    \*   read (reader loop) / ended (reader loop left)
    hsClock,        \* seconds since the deadline of the ack wait was set
    rxFrames,       \* what ws_read.next() has returned to the current loop, in order
    pongs,          \* '3' frames the current loop has submitted
    wEvents         \* calls of on_event

VARIABLES
    \* --- indexer: Syncer::run (syncer.rs) ---
    hubPages,       \* the hub's message log, as the pages fetch_messages returns
    syncPc,         \* position of run: init_index / fetch_sessions / fetch / embed /
                    \*   upsert / done (initial_sync returned Ok) / live (rx.recv in
                    \*   realtime_sync) / failed (run returned Err)
    runLog,         \* the steps of run started so far, in order
    since,          \* initial_sync's local since
    sse,            \* the event-stream listener task: none / open
    sseSeen,        \* events realtime_sync has received
    cursor,         \* initial_sync's local cursor (0: None)
    st_cursor,      \* sync state "messages_cursor" (0: not set)
    st_last_sync_ts, \* sync state "last_sync_ts"
    messages,       \* the page process_messages is working on
    all_chunks,     \* all_chunks of that process_messages pass
    batch_start,    \* batch_start of the window loop
    built,          \* ids of the documents built in that pass, in order
    engine          \* ids of the documents handed to the search engine

VARIABLES
    \* --- indexer: realtime_sync and the hub client's session cache ---
    sessions,       \* keys of HubClient.sessions, the session cache
    hubSess,        \* ids of the sessions the hub lists in /api/sync/sessions
    index,          \* the documents in the search engine, each with its sessionId
    livePc,         \* realtime_sync: recv (rx.recv) / delete (SessionRemoved, before
                    \*   delete_session_documents)
    liveEv,         \* session_id of the event being handled
    liveOp,         \* the last call made by the loop
    liveSeen        \* events received

VARIABLES
    \* --- indexer: TokenManager and subscribe_events (hub_client.rs) ---
    jwt,            \* TokenManager.jwt: 0 for None, n for the n-th token issued
    jwtAge,         \* jwt_obtained_at.elapsed(), in seconds
    hubAccepts,     \* the tokens the hub accepts
    esPc,           \* subscribe_events: jwt (self.jwt().await) / stream (es.next()) /
                    \*   sleep (the 5 s sleep before the next turn)
    esTok,          \* the token in the URL of the current or last stream
    esFail,         \* why the last stream ended: none / auth (the hub refused the
                    \*   token) / other
    esItems,        \* items es.next() has yielded
    esLast,         \* the last of them: none / open / message / empty / undecodable
    esCalls         \* calls of on_event

VARIABLES
    \* --- indexer: SearchService::search (search.rs) ---
    searchPc,       \* embed (embed_query) / engine (indexer.search) / group (the
                    \*   loop over the hits) / sorted / done / failed
    query,          \* the request's query
    limit,          \* the request's limit
    offset,         \* the request's offset
    hits,           \* result.hits of the engine
    nextHit,        \* the hit the loop takes next
    groups,         \* groups: session id -> SessionGroup
    session_results, \* session_results after sort_by
    response        \* SearchResponse.hits

VARIABLES
    \* --- indexer: two calls of Syncer::process_messages (syncer.rs) ---
    rpPc,           \* start (a call begins) / embed (embedder.embed) / upsert
                    \*   (indexer.add_documents) / done (both calls returned)
    rpRun,          \* the call that runs: 1 or 2
    rpMsgs,         \* messages: the list the second call gets
    rpFirst,        \* messages: the list the first call gets
    rpCache,        \* the hub client's session cache: session id -> name
    rpChunks,       \* all_chunks of the running call
    rpStart,        \* batch_start
    rpDocs,         \* documents: those of the window
    rpBuilt,        \* per call, the documents it built
    rpEmbed,        \* per call, the outcomes of embedder.embed, window by window
    rpAdd,          \* per call, the outcomes of indexer.add_documents
    rpIndex,        \* the documents in the engine's index
    rpAfter,        \* per call, the index when it returned
    rpRet           \* per call, what it returned: none / ok / err

VARIABLES
    \* --- indexer: truncate_str (text_extract.rs) ---
    tsPc,           \* call (before the call) / done
    ts_s,           \* s
    ts_max_chars,   \* max_chars
    ts_out          \* the String returned

VARIABLES
    \* --- agent: one tunnel:open event, from the socket handler to the dial ---
    poPc,           \* event (the handler is called) / queued / done
    po_data,        \* data: the event's JSON payload (tunnelId, port, host)
    po_full,        \* whether the event channel has no free slot
    po_event,       \* the SocketEvent::TunnelOpen sent to the manager, if any
    po_dial         \* the (host, port) TcpStream::connect was called with, if any

VARIABLES
    \* --- indexer: realtime_sync, the channel between the listener and the loop ---
    sse_rx,         \* the unbounded channel (tx, rx): the events sent and not received
    sse_tx_log,     \* every event the listener's handler was called with, in order
    sse_cur,        \* the event the loop's match is handling, if any
    sse_done        \* the events the loop has handled, each with how its call ended

sockVars == <<next_id, ack_waiters, callPc, callId, rxSlot, write_rx,
              writerAlive, wire, txCount, readerSt, ackCount, lastAck>>

loopVars == <<sig, backoff, waits, sent, attempt, delay, registered>>
connVars == <<mainPc, reader, initAck, fwd, sockUp, ka, event_rx, loopVars>>
tunVars == <<mgr, mgrEv, tunnels, rdPump, wrPump, wchan, tcpOut, upFrames, tunFrames>>
envVars == <<hubSt, hubSent, tcpIn>>
agentVars == <<connVars, tunVars, envVars>>

runVars == <<runLog, since, sse, sseSeen>>
syncVars == <<hubPages, syncPc, cursor, st_cursor, st_last_sync_ts, messages,
              all_chunks, batch_start, built, engine, runVars>>

wireVars == <<hsPc, hsClock, rxFrames, pongs, wEvents>>

liveVars == <<sessions, hubSess, index, livePc, liveEv, liveOp, liveSeen>>

streamVars == <<esItems, esLast, esCalls>>
tokVars == <<jwt, jwtAge, hubAccepts, esPc, esTok, esFail, streamVars>>

searchVars == <<searchPc, query, limit, offset, hits, nextHit, groups,
                session_results, response>>

replayVars == <<rpPc, rpRun, rpMsgs, rpFirst, rpCache, rpChunks, rpStart, rpDocs, rpBuilt,
                rpEmbed, rpAdd, rpIndex, rpAfter, rpRet>>

truncVars == <<tsPc, ts_s, ts_max_chars, ts_out>>

portVars == <<poPc, po_data, po_full, po_event, po_dial>>

chanVars == <<sse_rx, sse_tx_log, sse_cur, sse_done>>

vars == <<sockVars, wireVars, agentVars, syncVars, liveVars, tokVars, searchVars,
          replayVars, truncVars, portVars, chanVars>>

\* what the actions of one subsystem leave alone
nonSockVars == <<wireVars, agentVars, syncVars, liveVars, tokVars, searchVars, replayVars, truncVars, portVars, chanVars>>
nonAgentVars == <<sockVars, wireVars, syncVars, liveVars, tokVars, searchVars, replayVars, truncVars, portVars, chanVars>>
nonSyncVars == <<sockVars, wireVars, agentVars, liveVars, tokVars, searchVars, replayVars, truncVars, portVars, chanVars>>
nonWireVars == <<agentVars, syncVars, liveVars, tokVars, searchVars, replayVars, truncVars, portVars, chanVars>>
nonLiveVars == <<sockVars, wireVars, agentVars, syncVars, tokVars, searchVars, replayVars, truncVars, portVars, chanVars>>
nonTokVars == <<sockVars, wireVars, agentVars, syncVars, liveVars, searchVars, replayVars, truncVars, portVars, chanVars>>
nonSearchVars == <<sockVars, wireVars, agentVars, syncVars, liveVars, tokVars, replayVars, truncVars, portVars, chanVars>>
nonReplayVars == <<sockVars, wireVars, agentVars, syncVars, liveVars, tokVars,
                   searchVars, truncVars, portVars, chanVars>>
nonPortVars == <<sockVars, wireVars, agentVars, syncVars, liveVars, tokVars,
                 searchVars, replayVars, truncVars, chanVars>>
nonChanVars == <<sockVars, wireVars, agentVars, syncVars, liveVars, tokVars,
                 searchVars, replayVars, truncVars, portVars>>
nonTruncVars == <<sockVars, wireVars, agentVars, syncVars, liveVars, tokVars,
                  searchVars, replayVars, portVars, chanVars>>

Calls == 1..MaxCalls
\* ack ids a server frame may carry: every id a call can hold and one nobody holds
AckIds == 1..(MaxCalls + 1)

\* ------------------------------------------------------------------------
\* socket.rs
\* ------------------------------------------------------------------------

\* write_tx.send(msg): the queue accepts the frame at its tail; the frame's
\* tag is its position in the order of acceptance
Submit(kind, id) ==
    /\ write_rx' = Append(write_rx, [kind |-> kind, id |-> id, tag |-> txCount + 1])
    /\ txCount' = txCount + 1

CanSubmit == writerAlive /\ Len(write_rx) < WriteQueueCap

\* frames accepted from the producers other than emit_with_ack
OtherFrames ==
    txCount - Cardinality({c \in Calls :
                  callPc[c] \in {"wait", "ok", "timeout", "recv_error"}})

\* AllocId with the increment lost (the id read and written back unchanged)
AllocIdNoIncrement(c) ==
    /\ callPc[c] = "idle"
    /\ callId' = [callId EXCEPT ![c] = next_id]
    /\ callPc' = [callPc EXCEPT ![c] = "alloc"]
    /\ UNCHANGED <<next_id, ack_waiters, rxSlot, write_rx, writerAlive, wire,
                   txCount, readerSt, ackCount, lastAck>>
    /\ UNCHANGED nonSockVars

\* let id = *next; *next += 1   (under the next_id lock)
AllocId(c) ==
    /\ callPc[c] = "idle"
    /\ callId' = [callId EXCEPT ![c] = next_id]
    /\ next_id' = next_id + 1
    /\ callPc' = [callPc EXCEPT ![c] = "alloc"]
    /\ UNCHANGED <<ack_waiters, rxSlot, write_rx, writerAlive, wire, txCount,
                   readerSt, ackCount, lastAck>>
    /\ UNCHANGED nonSockVars

\* waiters.insert(id, tx): an entry already under id is replaced and its
\* sender dropped, which closes the receiver of the call that owned it
InsertWaiter(c) ==
    /\ callPc[c] = "alloc"
    /\ ack_waiters' = [i \in DOMAIN ack_waiters \cup {callId[c]} |->
                          IF i = callId[c] THEN c ELSE ack_waiters[i]]
    /\ rxSlot' = IF callId[c] \in DOMAIN ack_waiters
                    /\ rxSlot[ack_waiters[callId[c]]].st = "empty"
                 THEN [rxSlot EXCEPT ![ack_waiters[callId[c]]].st = "closed"]
                 ELSE rxSlot
    /\ callPc' = [callPc EXCEPT ![c] = "send"]
    /\ UNCHANGED <<next_id, callId, write_rx, writerAlive, wire, txCount,
                   readerSt, ackCount, lastAck>>
    /\ UNCHANGED nonSockVars

\* self.write_tx.send(Message::Text(packet)).await: waits while the queue is
\* full, fails with "socket write failed" once the writer task is gone
SendAckPacket(c) ==
    /\ callPc[c] = "send"
    /\ \/ /\ CanSubmit
          /\ Submit("event_ack", callId[c])
          /\ callPc' = [callPc EXCEPT ![c] = "wait"]
       \/ /\ ~writerAlive
          /\ callPc' = [callPc EXCEPT ![c] = "write_error"]
          /\ UNCHANGED <<write_rx, txCount>>
    /\ UNCHANGED <<next_id, ack_waiters, callId, rxSlot, writerAlive, wire,
                   readerSt, ackCount, lastAck>>
    /\ UNCHANGED nonSockVars

\* timeout(Duration::from_secs(timeout_secs), rx).await??
AwaitAck(c) ==
    /\ callPc[c] = "wait"
    /\ callPc' = [callPc EXCEPT ![c] =
                     IF rxSlot[c].st = "empty" THEN "timeout"
                     ELSE IF rxSlot[c].st = "closed" THEN "recv_error"
                     ELSE "ok"]
    /\ UNCHANGED <<next_id, ack_waiters, callId, rxSlot, write_rx, writerAlive,
                   wire, txCount, readerSt, ackCount, lastAck>>
    /\ UNCHANGED nonSockVars

\* the call still holds its oneshot receiver
RxLive(c) == callPc[c] \in {"alloc", "send", "wait"}

\* emit(event, data), from any task
Emit ==
    /\ OtherFrames < MaxFrames
    /\ CanSubmit
    /\ Submit("event", 0)
    /\ UNCHANGED <<next_id, ack_waiters, callPc, callId, rxSlot, writerAlive,
                   wire, readerSt, ackCount, lastAck>>
    /\ UNCHANGED nonSockVars

\* disconnect(): the close frame 41<ns>
Disconnect ==
    /\ OtherFrames < MaxFrames
    /\ CanSubmit
    /\ Submit("close", 0)
    /\ UNCHANGED <<next_id, ack_waiters, callPc, callId, rxSlot, writerAlive,
                   wire, readerSt, ackCount, lastAck>>
    /\ UNCHANGED nonSockVars

\* WriterSend taking the newest frame of the queue instead of the oldest
WriterSendNewest ==
    /\ writerAlive
    /\ write_rx # <<>>
    /\ wire' = Append(wire, write_rx[Len(write_rx)].tag)
    /\ write_rx' = SubSeq(write_rx, 1, Len(write_rx) - 1)
    /\ UNCHANGED <<next_id, ack_waiters, callPc, callId, rxSlot, writerAlive,
                   txCount, readerSt, ackCount, lastAck>>
    /\ UNCHANGED nonSockVars

\* writer task: while let Some(msg) = write_rx.recv().await { ws_write.send(msg) }
WriterSend ==
    /\ writerAlive
    /\ write_rx # <<>>
    /\ wire' = Append(wire, Head(write_rx).tag)
    /\ write_rx' = Tail(write_rx)
    /\ UNCHANGED <<next_id, ack_waiters, callPc, callId, rxSlot, writerAlive,
                   txCount, readerSt, ackCount, lastAck>>
    /\ UNCHANGED nonSockVars

\* ws_write.send(msg) fails: the writer task breaks, write_rx is dropped with
\* whatever it still holds
WriterFail ==
    /\ writerAlive
    /\ write_rx # <<>>
    /\ writerAlive' = FALSE
    /\ write_rx' = <<>>
    /\ UNCHANGED <<next_id, ack_waiters, callPc, callId, rxSlot, wire, txCount,
                   readerSt, ackCount, lastAck>>
    /\ UNCHANGED nonSockVars

\* reader task, text == "2": ping_tx.send("3").await
ReaderPing ==
    /\ readerSt = "read"
    /\ OtherFrames < MaxFrames
    /\ readerSt' = "pong"
    /\ UNCHANGED <<next_id, ack_waiters, callPc, callId, rxSlot, write_rx,
                   writerAlive, wire, txCount, ackCount, lastAck>>
    /\ UNCHANGED nonSockVars

ReaderPong ==
    /\ readerSt = "pong"
    /\ \/ /\ CanSubmit
          /\ Submit("pong", 0)
       \/ /\ ~writerAlive
          /\ UNCHANGED <<write_rx, txCount>>
    /\ readerSt' = "read"
    /\ UNCHANGED <<next_id, ack_waiters, callPc, callId, rxSlot, writerAlive,
                   wire, ackCount, lastAck>>
    /\ UNCHANGED nonSockVars

\* reader task, packet_type 3: if let Some(tx) = waiters.remove(&id) { tx.send(payload) }
\* The payload of the k-th ack frame is modelled as the pair (id, k).
ReaderAck(id) ==
    /\ readerSt = "read"
    /\ ackCount < MaxInbound
    /\ LET k == ackCount + 1
           hit == id \in DOMAIN ack_waiters
       IN  /\ ackCount' = k
           /\ lastAck' = [id |-> id, n |-> k, hit |-> hit]
           /\ ack_waiters' = [i \in DOMAIN ack_waiters \ {id} |-> ack_waiters[i]]
           /\ rxSlot' = IF hit /\ RxLive(ack_waiters[id])
                           /\ rxSlot[ack_waiters[id]].st = "empty"
                        THEN [rxSlot EXCEPT ![ack_waiters[id]] =
                                 [st |-> "full", id |-> id, n |-> k]]
                        ELSE rxSlot
    /\ UNCHANGED <<next_id, callPc, callId, write_rx, writerAlive, wire,
                   txCount, readerSt>>
    /\ UNCHANGED nonSockVars

SockIdle ==
    /\ next_id = 1
    /\ ack_waiters = <<>>
    /\ callPc = [c \in Calls |-> "idle"]
    /\ callId = [c \in Calls |-> 0]
    /\ rxSlot = [c \in Calls |-> [st |-> "empty", id |-> 0, n |-> 0]]
    /\ write_rx = <<>>
    /\ writerAlive = TRUE
    /\ wire = <<>>
    /\ txCount = 0
    /\ readerSt = "read"
    /\ ackCount = 0
    /\ lastAck = [id |-> 0, n |-> 0, hit |-> FALSE]

\* ------------------------------------------------------------------------
\* connection.rs, main.rs, tunnel.rs: the agent
\* ------------------------------------------------------------------------

Tunnels == 1..MaxTunnels

\* SocketEvent (connection.rs:10); data 0 is a payload that is not valid base64
Ev(type, id, data) == [type |-> type, id |-> id, data |-> data]
NoEvent == Ev("none", 0, 0)

\* the receiving end of the event queue exists: run() holds it until it moves
\* it into tunnel::run, which drops it when it returns
RxAlive ==
    \/ mainPc \in {"initial", "init_fail_sleep"}
    \/ mainPc = "select" /\ mgr # "returned"

\* tx.try_send(socket_event) with the result ignored (connection.rs:57)
TrySend(q, ev) ==
    IF RxAlive /\ Len(q) < EventQueueCap THEN Append(q, ev) ELSE q

\* dn.notify_waiters() (socket.rs:170): wakes the tasks waiting at this moment
\* and stores no permit
NotifyWaiters(f) == IF f = "waiting" THEN "notified" ELSE f

\* the tasks of dropped handles keep running (a handle without the Drop impl)
DetachedTasks(p, T) == p

\* impl Drop for TunnelHandle: read_task.abort(); write_task.abort()
AbortTasks(p, T) == [t \in Tunnels |-> IF t \in T THEN "none" ELSE p[t]]

\* dropping the handles of T: both tasks aborted, the write channel gone
DropHandles(T) ==
    /\ tunnels' = tunnels \ T
    /\ rdPump' = AbortTasks(rdPump, T)
    /\ wrPump' = AbortTasks(wrPump, T)
    /\ wchan' = [t \in Tunnels |-> IF t \in T THEN <<>> ELSE wchan[t]]

Min(a, b) == IF a <= b THEN a ELSE b

\* number of occurrences of x in the sequence q
Count(q, x) == Cardinality({i \in 1..Len(q) : q[i] = x})

\* write_tx.send(frame) with the result ignored or logged: the frame is
\* accepted while the writer task is alive
SendFrame(q, name) == IF sockUp THEN Append(q, name) ELSE q

\* the log of the frames of tunnel t after a frame of this kind was accepted
\* by the socket: kept while the TunnelOpen of t is the manager's last event,
\* and ending with the tunnel:ready
LogFrame(t, kind) ==
    IF sockUp /\ mgrEv.type = "TunnelOpen" /\ mgrEv.id = t
              /\ Count(tunFrames[t], "ready") = 0
    THEN [tunFrames EXCEPT ![t] = Append(@, kind)]
    ELSE tunFrames

\* --- register_machine (register.rs) ---------------------------------------

\* the POST returned a 2xx status: return Ok(()); run() installs the signal
\* listeners, sets backoff to 1 s and enters the loop
RegisterOk ==
    /\ mainPc = "register"
    /\ mainPc' = "connect"
    /\ registered' = TRUE
    /\ attempt' = 0
    /\ delay' = 1
    /\ backoff' = 1
    /\ UNCHANGED <<reader, initAck, fwd, sockUp, ka, event_rx, sig, waits, sent,
                   tunVars, envVars>>
    /\ UNCHANGED nonAgentVars

\* the POST failed or returned another status: sleep(delay) unless this was
\* the last attempt, after which register_machine returns Err and run() ends
RegisterAttemptFailed ==
    /\ mainPc = "register"
    /\ mainPc' = IF attempt < max_attempts THEN "reg_sleep" ELSE "fatal"
    /\ UNCHANGED <<reader, initAck, fwd, sockUp, ka, event_rx, loopVars,
                   tunVars, envVars>>
    /\ UNCHANGED nonAgentVars

\* the doubling of delay without the cap
RegisterSleepDoneUncapped ==
    /\ mainPc = "reg_sleep"
    /\ mainPc' = "register"
    /\ delay' = delay * 2
    /\ attempt' = attempt + 1
    /\ UNCHANGED <<reader, initAck, fwd, sockUp, ka, event_rx, sig, backoff,
                   waits, sent, registered, tunVars, envVars>>
    /\ UNCHANGED nonAgentVars

\* sleep(delay) is over: delay = (delay * 2).min(max_delay), next attempt
RegisterSleepDone ==
    /\ mainPc = "reg_sleep"
    /\ mainPc' = "register"
    /\ delay' = Min(delay * 2, max_delay)
    /\ attempt' = attempt + 1
    /\ UNCHANGED <<reader, initAck, fwd, sockUp, ka, event_rx, sig, backoff,
                   waits, sent, registered, tunVars, envVars>>
    /\ UNCHANGED nonAgentVars

\* --- run(): the connection loop -------------------------------------------

\* the kernel delivers SIGINT or SIGTERM to the listeners of main.rs:43-44
SignalArrives ==
    /\ mainPc \in {"connect", "retry_sleep", "initial", "init_fail_sleep",
                    "select", "pause"}
    /\ ~sig
    /\ sig' = TRUE
    /\ UNCHANGED <<mainPc, reader, initAck, fwd, sockUp, ka, event_rx, backoff,
                   waits, sent, attempt, delay, registered, tunVars, envVars>>
    /\ UNCHANGED nonAgentVars

\* return Ok(()) from run(): main returns, the runtime is dropped with every
\* task, the process ends
Exit ==
    /\ mainPc' = "exited"
    /\ reader' = "none"
    /\ fwd' = "none"
    /\ ka' = "none"
    /\ sockUp' = FALSE
    /\ event_rx' = <<>>
    /\ mgr' = "none"
    /\ DropHandles(tunnels)
    /\ UNCHANGED <<initAck, sig, backoff, waits, attempt, delay, registered,
                   mgrEv, tcpOut, upFrames, tunFrames, envVars>>

\* connection::connect returned Ok: reader and forwarder spawned, backoff
\* reset; the next statement, emit_initial_state, submits machine-update-state
ConnectOk ==
    /\ mainPc = "connect"
    /\ mainPc' = "initial"
    /\ reader' = "running"
    /\ fwd' = "spawned"
    /\ initAck' = FALSE
    /\ sockUp' = TRUE
    /\ event_rx' = <<>>
    /\ backoff' = 1
    /\ waits' = <<>>
    /\ sent' = <<"machine-update-state">>
    /\ mgr' = "none"
    /\ mgrEv' = NoEvent
    /\ hubSt' = [t \in Tunnels |-> "closed"]
    /\ hubSent' = [t \in Tunnels |-> 0]
    /\ UNCHANGED <<ka, sig, attempt, delay, registered, tunnels, rdPump, wrPump,
                   wchan, tcpOut, upFrames, tcpIn>>
    /\ tunFrames' = [t \in Tunnels |-> <<>>]
    /\ UNCHANGED nonAgentVars

\* connection::connect returned Err: select! on sleep(backoff) and the signals
ConnectFail ==
    /\ mainPc = "connect"
    /\ Len(waits) < MaxFails
    /\ mainPc' = "retry_sleep"
    /\ UNCHANGED <<reader, initAck, fwd, sockUp, ka, event_rx, loopVars,
                   tunVars, envVars>>
    /\ UNCHANGED nonAgentVars

\* the doubling without the cap
SleptUncapped ==
    /\ waits' = Append(waits, backoff)
    /\ backoff' = backoff * 2

\* sleep(backoff) is over: backoff = (backoff * 2).min(MAX_BACKOFF)
Slept ==
    /\ waits' = Append(waits, backoff)
    /\ backoff' = Min(backoff * 2, MAX_BACKOFF)

\* the sleep branch of the select! of main.rs:58; a signal that is already
\* there wins, the sleep has not elapsed when it is first polled
RetrySleepDone ==
    /\ mainPc = "retry_sleep"
    /\ ~sig
    /\ mainPc' = "connect"
    /\ Slept
    /\ UNCHANGED <<reader, initAck, fwd, sockUp, ka, event_rx, sig, sent,
                   attempt, delay, registered, tunVars, envVars>>
    /\ UNCHANGED nonAgentVars

\* the signal branches of the select! of main.rs:58: return Ok(())
RetrySignal ==
    /\ mainPc = "retry_sleep"
    /\ sig
    /\ Exit
    /\ UNCHANGED sent
    /\ UNCHANGED nonAgentVars

\* the reader task delivers the ack of machine-update-state
ReaderInitAck ==
    /\ reader = "running"
    /\ mainPc = "initial"
    /\ ~initAck
    /\ initAck' = TRUE
    /\ UNCHANGED <<mainPc, reader, fwd, sockUp, ka, event_rx, loopVars, tunVars, envVars>>
    /\ UNCHANGED nonAgentVars

\* spawn of keep_alive and tunnel::run with the initial state not acknowledged
InitialSkipped ==
    /\ mainPc = "initial"
    /\ ka' = "running"
    /\ mgr' = "recv"
    /\ mainPc' = "select"
    /\ UNCHANGED <<reader, initAck, fwd, sockUp, event_rx, loopVars, mgrEv, tunnels,
                   rdPump, wrPump, wchan, tcpOut, upFrames, tunFrames, envVars>>
    /\ UNCHANGED nonAgentVars

\* emit_initial_state returned Ok: spawn keep_alive and tunnel::run
InitialAcked ==
    /\ mainPc = "initial"
    /\ initAck
    /\ ka' = "running"
    /\ mgr' = "recv"
    /\ mainPc' = "select"
    /\ UNCHANGED <<reader, initAck, fwd, sockUp, event_rx, loopVars, mgrEv, tunnels,
                   rdPump, wrPump, wchan, tcpOut, upFrames, tunFrames, envVars>>
    /\ UNCHANGED nonAgentVars

\* emit_initial_state returned Err (the send failed, or no ack within 10 s):
\* client.disconnect() submits the close frame, then sleep(backoff)
InitialFailed ==
    /\ mainPc = "initial"
    /\ ~initAck
    /\ mainPc' = "init_fail_sleep"
    /\ sent' = SendFrame(sent, "close")
    /\ UNCHANGED <<reader, initAck, fwd, sockUp, ka, event_rx, sig, backoff, waits,
                   attempt, delay, registered, tunVars, envVars>>
    /\ UNCHANGED nonAgentVars

\* sleep(backoff) of main.rs:73 is over, whether a signal is there or not;
\* backoff doubled; continue drops event_rx
InitFailSleepDone ==
    /\ mainPc = "init_fail_sleep"
    /\ mainPc' = "connect"
    /\ event_rx' = <<>>
    /\ Slept
    /\ UNCHANGED <<reader, initAck, fwd, sockUp, ka, sig, sent, attempt, delay,
                   registered, tunVars, envVars>>
    /\ UNCHANGED nonAgentVars

\* select!: tunnel_handle completed; keepalive_handle.abort()
SelectTunnelDone ==
    /\ mainPc = "select"
    /\ mgr = "returned"
    /\ ka' = "none"
    /\ mainPc' = "pause"
    /\ UNCHANGED <<reader, initAck, fwd, sockUp, event_rx, loopVars, tunVars, envVars>>
    /\ UNCHANGED nonAgentVars

\* select!: sigint.recv() or sigterm.recv(); keepalive_handle.abort(),
\* client.disconnect(), return Ok(())
SelectSignal ==
    /\ mainPc = "select"
    /\ sig
    /\ sent' = SendFrame(sent, "close")
    /\ Exit
    /\ UNCHANGED nonAgentVars

\* the sleep branch of the select! of main.rs:112
PauseDone ==
    /\ mainPc = "pause"
    /\ ~sig
    /\ mainPc' = "connect"
    /\ Slept
    /\ UNCHANGED <<reader, initAck, fwd, sockUp, ka, event_rx, sig, sent,
                   attempt, delay, registered, tunVars, envVars>>
    /\ UNCHANGED nonAgentVars

\* the signal branches of the select! of main.rs:112: return Ok(())
PauseSignal ==
    /\ mainPc = "pause"
    /\ sig
    /\ Exit
    /\ UNCHANGED sent
    /\ UNCHANGED nonAgentVars

\* keep_alive: interval.tick() completed, client.emit("machine-alive"); a
\* failed emit is logged
KeepAliveTick ==
    /\ ka = "running"
    /\ Count(sent, "machine-alive") < MaxAlive
    /\ sent' = SendFrame(sent, "machine-alive")
    /\ UNCHANGED <<mainPc, reader, initAck, fwd, sockUp, ka, event_rx, sig, backoff,
                   waits, attempt, delay, registered, tunVars, envVars>>
    /\ UNCHANGED nonAgentVars

\* the WebSocket sink fails: the writer task ends and emits fail from now on
SocketWriterDies ==
    /\ sockUp
    /\ mainPc \in {"initial", "select"}
    /\ sockUp' = FALSE
    /\ UNCHANGED <<mainPc, reader, initAck, fwd, ka, event_rx, tunVars, envVars>>
    /\ UNCHANGED loopVars
    /\ UNCHANGED nonAgentVars

\* --- reader task and on_event (socket.rs:113, connection.rs:28) -----------

ReaderTunnelOpen(t) ==
    /\ reader = "running"
    /\ RxAlive
    /\ hubSt[t] \in {"closed", "half"}
    /\ hubSt' = [hubSt EXCEPT ![t] = "opening"]
    /\ event_rx' = TrySend(event_rx, Ev("TunnelOpen", t, 0))
    /\ UNCHANGED <<mainPc, reader, initAck, fwd, sockUp, ka, tunVars, hubSent, tcpIn>>
    /\ UNCHANGED loopVars
    /\ UNCHANGED nonAgentVars

\* the hub's k-th tunnel:data of a tunnel carries payload k
ReaderTunnelData(t) ==
    /\ reader = "running"
    /\ RxAlive
    /\ hubSt[t] = "open"
    /\ hubSent[t] < MaxData
    /\ hubSent' = [hubSent EXCEPT ![t] = @ + 1]
    /\ event_rx' = TrySend(event_rx, Ev("TunnelData", t, hubSent[t] + 1))
    /\ UNCHANGED <<mainPc, reader, initAck, fwd, sockUp, ka, tunVars, hubSt, tcpIn>>
    /\ UNCHANGED loopVars
    /\ UNCHANGED nonAgentVars

\* a tunnel:data whose data field is not valid base64
ReaderTunnelBadData(t) ==
    /\ reader = "running"
    /\ RxAlive
    /\ hubSt[t] = "open"
    /\ event_rx' = TrySend(event_rx, Ev("TunnelData", t, 0))
    /\ UNCHANGED <<mainPc, reader, initAck, fwd, sockUp, ka, tunVars, envVars>>
    /\ UNCHANGED loopVars
    /\ UNCHANGED nonAgentVars

ReaderTunnelClose(t) ==
    /\ reader = "running"
    /\ RxAlive
    /\ hubSt[t] \in {"open", "half"}
    /\ hubSt' = [hubSt EXCEPT ![t] = "closed"]
    /\ event_rx' = TrySend(event_rx, Ev("TunnelClose", t, 0))
    /\ UNCHANGED <<mainPc, reader, initAck, fwd, sockUp, ka, tunVars, hubSent, tcpIn>>
    /\ UNCHANGED loopVars
    /\ UNCHANGED nonAgentVars

\* the loop ends (engine close, 41<ns>, Close frame, read error, end of
\* stream): dn.notify_waiters()
ReaderEnd ==
    /\ reader = "running"
    /\ reader' = "done"
    /\ fwd' = NotifyWaiters(fwd)
    /\ UNCHANGED <<mainPc, initAck, sockUp, ka, event_rx, tunVars, envVars>>
    /\ UNCHANGED loopVars
    /\ UNCHANGED nonAgentVars

\* --- disconnect forwarder (connection.rs:64) ------------------------------

\* first poll of the task: dc_notify.notified().await starts waiting
FwdStart ==
    /\ fwd = "spawned"
    /\ fwd' = "waiting"
    /\ UNCHANGED <<mainPc, reader, initAck, sockUp, ka, event_rx, tunVars, envVars>>
    /\ UNCHANGED loopVars
    /\ UNCHANGED nonAgentVars

\* dc_tx.send(SocketEvent::Disconnected).await: waits for room in the queue,
\* fails (ignored) when the receiver is gone
FwdSend ==
    /\ fwd = "notified"
    /\ \/ /\ RxAlive
          /\ Len(event_rx) < EventQueueCap
          /\ event_rx' = Append(event_rx, Ev("Disconnected", 0, 0))
       \/ /\ ~RxAlive
          /\ UNCHANGED event_rx
    /\ fwd' = "done"
    /\ UNCHANGED <<mainPc, reader, initAck, sockUp, ka, tunVars, envVars>>
    /\ UNCHANGED loopVars
    /\ UNCHANGED nonAgentVars

\* --- tunnel::run ----------------------------------------------------------

MgrHas(type) ==
    /\ mainPc = "select"
    /\ mgr = "recv"
    /\ event_rx # <<>>
    /\ Head(event_rx).type = type

\* TunnelOpen: handle_tunnel_open starts TcpStream::connect
MgrTunnelOpen ==
    /\ MgrHas("TunnelOpen")
    /\ mgrEv' = Head(event_rx)
    /\ event_rx' = Tail(event_rx)
    /\ mgr' = "opening"
    /\ UNCHANGED <<mainPc, reader, initAck, fwd, sockUp, ka, tunnels, rdPump,
                   wrPump, wchan, tcpOut, upFrames, envVars>>
    /\ tunFrames' = [tunFrames EXCEPT ![Head(event_rx).id] = <<>>]
    /\ UNCHANGED loopVars
    /\ UNCHANGED nonAgentVars

\* TcpStream::connect failed: emit tunnel:error, result ignored
MgrOpenRefused ==
    /\ mgr = "opening"
    /\ mgr' = "recv"
    /\ hubSt' = IF sockUp THEN [hubSt EXCEPT ![mgrEv.id] = "closed"] ELSE hubSt
    /\ UNCHANGED <<connVars, mgrEv, tunnels, rdPump, wrPump, wchan, tcpOut,
                   upFrames, hubSent, tcpIn>>
    /\ tunFrames' = LogFrame(mgrEv.id, "connect_error")
    /\ UNCHANGED nonAgentVars

\* connected, but emit tunnel:ready failed: return, the stream is dropped
MgrOpenEmitFailed ==
    /\ mgr = "opening"
    /\ ~sockUp
    /\ mgr' = "recv"
    /\ UNCHANGED <<connVars, mgrEv, tunnels, rdPump, wrPump, wchan, tcpOut,
                   upFrames, tunFrames, envVars>>
    /\ UNCHANGED nonAgentVars

\* connected and tunnel:ready emitted: spawn both pumps, tunnels.insert
\* (a handle already under the id is dropped)
MgrOpenReady ==
    /\ mgr = "opening"
    /\ sockUp
    /\ LET t == mgrEv.id
       IN  /\ tunnels' = tunnels \cup {t}
           /\ rdPump' = [rdPump EXCEPT ![t] = "reading"]
           /\ wrPump' = [wrPump EXCEPT ![t] = "running"]
           /\ wchan' = [wchan EXCEPT ![t] = <<>>]
           /\ tcpOut' = [tcpOut EXCEPT ![t] = <<>>]
           /\ upFrames' = [upFrames EXCEPT ![t] = <<>>]
           /\ tunFrames' = LogFrame(t, "ready")
           /\ tcpIn' = [tcpIn EXCEPT ![t] = 0]
           /\ hubSent' = [hubSent EXCEPT ![t] = 0]
           /\ hubSt' = [hubSt EXCEPT ![t] = "open"]
    /\ mgr' = "recv"
    /\ UNCHANGED <<connVars, mgrEv>>
    /\ UNCHANGED nonAgentVars

\* TunnelData whose send always waits, also when the channel has room
MgrTunnelDataAlwaysWaits ==
    /\ MgrHas("TunnelData")
    /\ LET ev == Head(event_rx)
           t == ev.id
       IN  /\ mgrEv' = ev
           /\ event_rx' = Tail(event_rx)
           /\ IF t \notin tunnels \/ ev.data = 0
              THEN \* no handle, or a decode error: dropped
                   UNCHANGED <<mgr, tunnels, rdPump, wrPump, wchan>>
              ELSE IF wrPump[t] # "running"
              THEN \* the write channel is closed: tunnels.remove
                   DropHandles({t}) /\ UNCHANGED mgr
              ELSE /\ mgr' = "sending"
                   /\ UNCHANGED <<tunnels, rdPump, wrPump, wchan>>
    /\ UNCHANGED <<mainPc, reader, initAck, fwd, sockUp, ka, tcpOut, upFrames, envVars>>
    /\ UNCHANGED loopVars
    /\ tunFrames' = [t \in Tunnels |-> <<>>]
    /\ UNCHANGED nonAgentVars

\* TunnelData: tunnels.get, B64.decode, handle.write_tx.send(bytes).await
MgrTunnelData ==
    /\ MgrHas("TunnelData")
    /\ LET ev == Head(event_rx)
           t == ev.id
       IN  /\ mgrEv' = ev
           /\ event_rx' = Tail(event_rx)
           /\ IF t \notin tunnels \/ ev.data = 0
              THEN \* no handle, or a decode error: dropped
                   UNCHANGED <<mgr, tunnels, rdPump, wrPump, wchan>>
              ELSE IF wrPump[t] # "running"
              THEN \* the write channel is closed: tunnels.remove
                   DropHandles({t}) /\ UNCHANGED mgr
              ELSE IF Len(wchan[t]) < WriteChanCap
              THEN /\ wchan' = [wchan EXCEPT ![t] = Append(@, ev.data)]
                   /\ UNCHANGED <<mgr, tunnels, rdPump, wrPump>>
              ELSE /\ mgr' = "sending"
                   /\ UNCHANGED <<tunnels, rdPump, wrPump, wchan>>
    /\ UNCHANGED <<mainPc, reader, initAck, fwd, sockUp, ka, tcpOut, upFrames, envVars>>
    /\ UNCHANGED loopVars
    /\ tunFrames' = [t \in Tunnels |-> <<>>]
    /\ UNCHANGED nonAgentVars

\* write_tx.send(bytes).await completes: room in the channel, or closed
MgrSendDone ==
    /\ mgr = "sending"
    /\ LET t == mgrEv.id
       IN  \/ /\ wrPump[t] # "running"
              /\ DropHandles({t})
           \/ /\ wrPump[t] = "running"
              /\ Len(wchan[t]) < WriteChanCap
              /\ wchan' = [wchan EXCEPT ![t] = Append(@, mgrEv.data)]
              /\ UNCHANGED <<tunnels, rdPump, wrPump>>
    /\ mgr' = "recv"
    /\ UNCHANGED <<connVars, mgrEv, tcpOut, upFrames, tunFrames, envVars>>
    /\ UNCHANGED nonAgentVars

\* TunnelClose: tunnels.remove(&tunnel_id)
MgrTunnelClose ==
    /\ MgrHas("TunnelClose")
    /\ mgrEv' = Head(event_rx)
    /\ event_rx' = Tail(event_rx)
    /\ DropHandles({Head(event_rx).id})
    /\ UNCHANGED <<mainPc, reader, initAck, fwd, sockUp, ka, mgr, tcpOut,
                   upFrames, envVars>>
    /\ UNCHANGED loopVars
    /\ tunFrames' = [t \in Tunnels |-> <<>>]
    /\ UNCHANGED nonAgentVars

\* MgrDisconnected returning with the handles left in place
MgrDisconnectedKeepHandles ==
    /\ MgrHas("Disconnected")
    /\ mgrEv' = Head(event_rx)
    /\ event_rx' = <<>>
    /\ mgr' = "returned"
    /\ UNCHANGED <<mainPc, reader, initAck, fwd, sockUp, ka, tunnels, rdPump,
                   wrPump, wchan, tcpOut, upFrames, envVars>>
    /\ UNCHANGED loopVars
    /\ tunFrames' = [t \in Tunnels |-> <<>>]
    /\ UNCHANGED nonAgentVars

\* Disconnected: tunnels.clear(); return (event_rx is dropped with the task)
MgrDisconnected ==
    /\ MgrHas("Disconnected")
    /\ mgrEv' = Head(event_rx)
    /\ event_rx' = <<>>
    /\ DropHandles(tunnels)
    /\ mgr' = "returned"
    /\ UNCHANGED <<mainPc, reader, initAck, fwd, sockUp, ka, tcpOut, upFrames, envVars>>
    /\ UNCHANGED loopVars
    /\ tunFrames' = [t \in Tunnels |-> <<>>]
    /\ UNCHANGED nonAgentVars

\* --- tcp_read_loop --------------------------------------------------------

\* tcp_read.read returned Ok(n), n > 0
PumpReadData(t) ==
    /\ rdPump[t] = "reading"
    /\ tcpIn[t] < MaxTcpIn
    /\ tcpIn' = [tcpIn EXCEPT ![t] = @ + 1]
    /\ rdPump' = [rdPump EXCEPT ![t] = "emit_data"]
    /\ UNCHANGED <<connVars, mgr, mgrEv, tunnels, wrPump, wchan, tcpOut,
                   upFrames, tunFrames, hubSt, hubSent>>
    /\ UNCHANGED nonAgentVars

\* tcp_read.read returned Ok(0)
PumpReadEof(t) ==
    /\ rdPump[t] = "reading"
    /\ rdPump' = [rdPump EXCEPT ![t] = "emit_close"]
    /\ UNCHANGED <<connVars, mgr, mgrEv, tunnels, wrPump, wchan, tcpOut,
                   upFrames, tunFrames, envVars>>
    /\ UNCHANGED nonAgentVars

\* tcp_read.read returned Err
PumpReadError(t) ==
    /\ rdPump[t] = "reading"
    /\ rdPump' = [rdPump EXCEPT ![t] = "emit_error"]
    /\ UNCHANGED <<connVars, mgr, mgrEv, tunnels, wrPump, wchan, tcpOut,
                   upFrames, tunFrames, envVars>>
    /\ UNCHANGED nonAgentVars

\* client.emit(...).await of the read pump completes: tunnel:data goes back
\* to reading (or breaks on a failed emit), tunnel:close and tunnel:error end
\* the loop whatever emit returned
PumpEmit(t) ==
    /\ rdPump[t] \in {"emit_data", "emit_close", "emit_error"}
    /\ LET kind == IF rdPump[t] = "emit_data" THEN "data"
                   ELSE IF rdPump[t] = "emit_close" THEN "close" ELSE "error"
       IN  /\ upFrames' = IF sockUp THEN [upFrames EXCEPT ![t] = Append(@, kind)]
                          ELSE upFrames
           /\ tunFrames' = LogFrame(t, kind)
           /\ rdPump' = [rdPump EXCEPT ![t] =
                            IF kind = "data" /\ sockUp THEN "reading" ELSE "done"]
           /\ hubSt' = IF sockUp /\ kind # "data" /\ hubSt[t] = "open"
                       THEN [hubSt EXCEPT ![t] = "half"] ELSE hubSt
    /\ UNCHANGED <<connVars, mgr, mgrEv, tunnels, wrPump, wchan, tcpOut,
                   hubSent, tcpIn>>
    /\ UNCHANGED nonAgentVars

\* --- tcp_write_loop -------------------------------------------------------

\* write_rx.recv() returned bytes and tcp_write.write_all succeeded
PumpWrite(t) ==
    /\ wrPump[t] = "running"
    /\ wchan[t] # <<>>
    /\ tcpOut' = [tcpOut EXCEPT ![t] = Append(@, Head(wchan[t]))]
    /\ wchan' = [wchan EXCEPT ![t] = Tail(@)]
    /\ UNCHANGED <<connVars, mgr, mgrEv, tunnels, rdPump, wrPump, upFrames, tunFrames, envVars>>
    /\ UNCHANGED nonAgentVars

\* write_all failed: break; write_rx is dropped with what it holds
PumpWriteError(t) ==
    /\ wrPump[t] = "running"
    /\ wchan[t] # <<>>
    /\ wrPump' = [wrPump EXCEPT ![t] = "done"]
    /\ wchan' = [wchan EXCEPT ![t] = <<>>]
    /\ UNCHANGED <<connVars, mgr, mgrEv, tunnels, rdPump, tcpOut, upFrames, tunFrames, envVars>>
    /\ UNCHANGED nonAgentVars

\* ------------------------------------------------------------------------
\* chunker.rs, syncer.rs: the indexer's catch-up
\* ------------------------------------------------------------------------

\* Strings that matter character by character are sequences of characters.
MSG_ == <<"m", "s", "g", "_">>
CHUNK_ == <<"_", "c", "h", "u", "n", "k", "_">>

DigitChar(d) == <<"0", "1", "2", "3", "4", "5", "6", "7", "8", "9">>[d + 1]

\* usize formatted by {} : decimal, no sign, no padding
RECURSIVE Digits(_)
Digits(n) ==
    IF n < 10 THEN <<DigitChar(n)>>
    ELSE Digits(n \div 10) \o <<DigitChar(n % 10)>>

\* the id of the k-th message of the hub's log; every other one ends like a
\* document id does
MsgIdAt(k) ==
    IF k % 2 = 1 THEN <<"a">> \o Digits(k \div 2)
    ELSE <<"a">> \o Digits(k \div 2 - 1) \o CHUNK_ \o <<"0">>

\* format!("msg_{}_chunk_{}", message_id, chunk_index) without the message id
DocIdNoMessage(chunk) == MSG_ \o CHUNK_ \o Digits(chunk.chunk_index)

\* SearchDocument.id: format!("msg_{}_chunk_{}", chunk.message_id, chunk.chunk_index)
DocId(chunk) ==
    MSG_ \o chunk.message_id \o CHUNK_ \o Digits(chunk.chunk_index)

\* A text is a sequence of blocks.  A block is what one segment contributes,
\* "[role] text", with its number of characters, or a single "\n".
NL == [mid |-> <<>>, seg |-> 0, chars |-> 1]

RoleChars(role) ==
    CASE role = "user" -> 4
      [] role = "assistant" -> 9
      [] role = "tool" -> 4
      [] role = "tool_result" -> 11

\* format!("[{}] {}", seg.role, text) for the i-th segment of message mid;
\* seg.chars is the length of seg.text.trim()
SegBlock(mid, i, seg) ==
    [mid |-> mid, seg |-> i, chars |-> RoleChars(seg.role) + 3 + seg.chars]

\* text.chars().count()
RECURSIVE CharCount(_)
CharCount(text) ==
    IF text = <<>> THEN 0 ELSE Head(text).chars + CharCount(Tail(text))

\* parts.join("\n")
RECURSIVE JoinNL(_)
JoinNL(parts) ==
    IF parts = <<>> THEN <<>>
    ELSE IF Len(parts) = 1 THEN parts[1]
    ELSE parts[1] \o <<NL>> \o JoinNL(Tail(parts))

\* flatten_segments: the blocks of the segments that are not empty after
\* trim, joined by "\n"
RECURSIVE FlattenFrom(_, _)
FlattenFrom(msg, i) ==
    IF i > Len(msg.segments) THEN <<>>
    ELSE (IF msg.segments[i].chars = 0 THEN <<>>
          ELSE << <<SegBlock(msg.message_id, i, msg.segments[i])>> >>)
         \o FlattenFrom(msg, i + 1)

flatten_segments(msg) == JoinNL(FlattenFrom(msg, 1))

\* dominant_role: "user" if some segment is the user's, else the first role
dominant_role(segments) ==
    IF \E i \in 1..Len(segments) : segments[i].role = "user" THEN "user"
    ELSE IF segments = <<>> THEN "unknown"
    ELSE segments[1].role

\* the chunker's loop state before the first message
EmptyBuf ==
    [chunks |-> <<>>, chunk_index |-> 0, buf_text |-> <<>>,
     buf_first_msg_id |-> <<>>, buf_first_created_at |-> 0,
     buf_session_id |-> "", buf_role |-> ""]

\* TextChunk built from the buffer
BufChunk(b) ==
    [message_id |-> b.buf_first_msg_id, session_id |-> b.buf_session_id,
     created_at |-> b.buf_first_created_at, role |-> b.buf_role,
     text |-> b.buf_text, chunk_index |-> b.chunk_index]

\* start a new buffer with msg
StartBuf(b, msg) ==
    [b EXCEPT !.buf_text = flatten_segments(msg),
              !.buf_first_msg_id = msg.message_id,
              !.buf_first_created_at = msg.created_at,
              !.buf_session_id = msg.session_id,
              !.buf_role = dominant_role(msg.segments)]

\* one iteration that flushes the buffer on overflow and loses the message
\* that overflowed
ChunkStepDropsOverflow(b, msg) ==
    LET msg_text == flatten_segments(msg)
    IN  IF msg_text = <<>> THEN b
        ELSE IF b.buf_text = <<>> THEN StartBuf(b, msg)
        ELSE IF CharCount(b.buf_text) + 1 + CharCount(msg_text) > TARGET_CHUNK_CHARS
        THEN [b EXCEPT !.chunks = Append(@, BufChunk(b)),
                       !.chunk_index = @ + 1,
                       !.buf_text = <<>>]
        ELSE [b EXCEPT !.buf_text = @ \o <<NL>> \o msg_text]

\* one iteration that flushes the buffer already when the merged text would
\* reach the target
ChunkStepFlushAtTarget(b, msg) ==
    LET msg_text == flatten_segments(msg)
    IN  IF msg_text = <<>> THEN b
        ELSE IF b.buf_text = <<>> THEN StartBuf(b, msg)
        ELSE IF CharCount(b.buf_text) + 1 + CharCount(msg_text) >= TARGET_CHUNK_CHARS
        THEN StartBuf([b EXCEPT !.chunks = Append(@, BufChunk(b)),
                                !.chunk_index = @ + 1], msg)
        ELSE [b EXCEPT !.buf_text = @ \o <<NL>> \o msg_text]

\* one iteration of the loop of chunk_messages
ChunkStep(b, msg) ==
    LET msg_text == flatten_segments(msg)
    IN  IF msg_text = <<>> THEN b
        ELSE IF b.buf_text = <<>> THEN StartBuf(b, msg)
        ELSE IF CharCount(b.buf_text) + 1 + CharCount(msg_text) > TARGET_CHUNK_CHARS
        THEN StartBuf([b EXCEPT !.chunks = Append(@, BufChunk(b)),
                                !.chunk_index = @ + 1], msg)
        ELSE [b EXCEPT !.buf_text = @ \o <<NL>> \o msg_text]

RECURSIVE ChunkLoop(_, _)
ChunkLoop(b, msgs) ==
    IF msgs = <<>> THEN b ELSE ChunkLoop(ChunkStep(b, Head(msgs)), Tail(msgs))

\* chunk_messages: the loop, then the flush of what remains in the buffer
chunk_messages(msgs) ==
    LET b == ChunkLoop(EmptyBuf, msgs)
    IN  IF b.buf_text # <<>> THEN Append(b.chunks, BufChunk(b)) ELSE b.chunks

\* process_messages, grouping: the MessageInfo of the messages of session s
\* that have segments, in arrival order
SessionMsgs(msgs, s) ==
    SelectSeq(msgs, LAMBDA m : m.session_id = s /\ m.segments # <<>>)

\* session_order: the sessions in the order of their first message with segments
RECURSIVE SessionOrder(_, _)
SessionOrder(msgs, seen) ==
    IF msgs = <<>> THEN <<>>
    ELSE LET m == Head(msgs)
         IN  IF m.segments = <<>> \/ m.session_id \in seen
             THEN SessionOrder(Tail(msgs), seen)
             ELSE <<m.session_id>> \o SessionOrder(Tail(msgs), seen \cup {m.session_id})

RECURSIVE ChunksOf(_, _)
ChunksOf(msgs, order) ==
    IF order = <<>> THEN <<>>
    ELSE chunk_messages(SessionMsgs(msgs, Head(order))) \o ChunksOf(msgs, Tail(order))

\* all_chunks of process_messages
AllChunks(msgs) == ChunksOf(msgs, SessionOrder(msgs, {}))

\* the ids of the documents built from the window that starts at batch_start
WindowIds(chunks, start) ==
    LET batch_end == IF start + EMBED_BATCH_SIZE < Len(chunks)
                     THEN start + EMBED_BATCH_SIZE ELSE Len(chunks)
    IN  [i \in 1..(batch_end - start) |-> DocId(chunks[start + i])]

SeqRange(s) == {s[i] : i \in 1..Len(s)}

\* --- Syncer::run: the steps before initial_sync ---------------------------

\* indexer.init_index() returned Ok: run goes on to hub.fetch_sessions(0)
InitIndexOk ==
    /\ syncPc = "init_index"
    /\ syncPc' = "fetch_sessions"
    /\ runLog' = Append(runLog, "fetch_sessions")
    /\ UNCHANGED <<hubPages, cursor, st_cursor, st_last_sync_ts, messages,
                   all_chunks, batch_start, built, engine, since, sse, sseSeen>>
    /\ UNCHANGED nonSyncVars

\* indexer.init_index() returned Err: the ? returns it from run
InitIndexErr ==
    /\ syncPc = "init_index"
    /\ syncPc' = "failed"
    /\ UNCHANGED <<hubPages, cursor, st_cursor, st_last_sync_ts, messages,
                   all_chunks, batch_start, built, engine, runVars>>
    /\ UNCHANGED nonSyncVars

\* hub.fetch_sessions(0) returned Ok: run calls initial_sync, which reads
\* since and cursor from the sync state
FetchSessionsOk ==
    /\ syncPc = "fetch_sessions"
    /\ syncPc' = "fetch"
    /\ runLog' = Append(runLog, "initial_sync")
    /\ since' = st_last_sync_ts
    /\ cursor' = st_cursor
    /\ UNCHANGED <<hubPages, st_cursor, st_last_sync_ts, messages,
                   all_chunks, batch_start, built, engine, sse, sseSeen>>
    /\ UNCHANGED nonSyncVars

\* hub.fetch_sessions(0) returned Err: the ? returns it from run
FetchSessionsErr ==
    /\ syncPc = "fetch_sessions"
    /\ syncPc' = "failed"
    /\ UNCHANGED <<hubPages, cursor, st_cursor, st_last_sync_ts, messages,
                   all_chunks, batch_start, built, engine, runVars>>
    /\ UNCHANGED nonSyncVars

\* --- initial_sync ---------------------------------------------------------

\* the sync state updated with the timestamp before the last message's
PageDoneExclusiveTs(page) ==
    /\ st_last_sync_ts' = page[Len(page)].created_at - 1
    /\ \E resp_cursor \in {<<>>, <<cursor + 1>>} :
          IF resp_cursor # <<>>
          THEN st_cursor' = resp_cursor[1] /\ cursor' = resp_cursor[1]
          ELSE UNCHANGED <<st_cursor, cursor>>
    /\ syncPc' = IF cursor + 1 < Len(hubPages) THEN "fetch" ELSE "done"

\* has_more of the response to the request with cursor c
HasMore(c) == c + 1 < Len(hubPages)

\* "Update sync state" after process_messages returned Ok, then the has_more
\* test; the hub's cursor after page k is k, and a response may carry none
PageDone(page) ==
    /\ st_last_sync_ts' = page[Len(page)].created_at
    /\ \E resp_cursor \in {<<>>, <<cursor + 1>>} :
          IF resp_cursor # <<>>
          THEN st_cursor' = resp_cursor[1] /\ cursor' = resp_cursor[1]
          ELSE UNCHANGED <<st_cursor, cursor>>
    /\ syncPc' = IF HasMore(cursor) THEN "fetch" ELSE "done"

\* fetch_messages returned a page: no message ends the loop; otherwise
\* process_messages groups and chunks it and, with chunks, goes to embed
FetchOk ==
    /\ syncPc = "fetch"
    /\ LET page == IF cursor < Len(hubPages) THEN hubPages[cursor + 1] ELSE <<>>
       IN  IF page = <<>>
           THEN /\ syncPc' = "done"
                /\ UNCHANGED <<cursor, st_cursor, st_last_sync_ts, messages,
                               all_chunks, batch_start, built>>
           ELSE /\ messages' = page
                /\ all_chunks' = AllChunks(page)
                /\ batch_start' = 0
                /\ built' = <<>>
                /\ IF AllChunks(page) = <<>>
                   THEN PageDone(page)
                   ELSE /\ syncPc' = "embed"
                        /\ UNCHANGED <<cursor, st_cursor, st_last_sync_ts>>
    /\ UNCHANGED <<hubPages, engine>>
    /\ UNCHANGED runVars
    /\ UNCHANGED nonSyncVars

\* fetch_messages returned Err: initial_sync returns it
FetchErr ==
    /\ syncPc = "fetch"
    /\ syncPc' = "failed"
    /\ UNCHANGED <<hubPages, cursor, st_cursor, st_last_sync_ts, messages,
                   all_chunks, batch_start, built, engine>>
    /\ UNCHANGED runVars
    /\ UNCHANGED nonSyncVars

\* process_messages returned Ok and the sync state is updated in live mode too
ProcessOkPersistsLive ==
    IF sse = "none"
    THEN PageDone(messages)
    ELSE /\ syncPc' = "live"
         /\ st_last_sync_ts' = messages[Len(messages)].created_at
         /\ UNCHANGED <<cursor, st_cursor>>

\* process_messages returned Ok: initial_sync updates the sync state;
\* realtime_sync waits for the next event
ProcessOk ==
    IF sse = "none"
    THEN PageDone(messages)
    ELSE /\ syncPc' = "live"
         /\ UNCHANGED <<cursor, st_cursor, st_last_sync_ts>>

\* the window loop goes on with the next window, or process_messages
\* returns Ok
NextWindow ==
    /\ batch_start' = batch_start + EMBED_BATCH_SIZE
    /\ IF batch_start + EMBED_BATCH_SIZE >= Len(all_chunks)
       THEN ProcessOk
       ELSE /\ syncPc' = "embed"
            /\ UNCHANGED <<cursor, st_cursor, st_last_sync_ts>>

\* embedder.embed returned the vectors: the window's documents are built
EmbedOk ==
    /\ syncPc = "embed"
    /\ built' = built \o WindowIds(all_chunks, batch_start)
    /\ syncPc' = "upsert"
    /\ UNCHANGED <<hubPages, cursor, st_cursor, st_last_sync_ts, messages,
                   all_chunks, batch_start, engine>>
    /\ UNCHANGED runVars
    /\ UNCHANGED nonSyncVars

\* embedder.embed returned Err: error!(...); continue
EmbedErr ==
    /\ syncPc = "embed"
    /\ NextWindow
    /\ UNCHANGED <<hubPages, messages, all_chunks, built, engine>>
    /\ UNCHANGED runVars
    /\ UNCHANGED nonSyncVars

\* indexer.add_documents returned Ok
AddDocumentsOk ==
    /\ syncPc = "upsert"
    /\ engine' = engine \cup SeqRange(WindowIds(all_chunks, batch_start))
    /\ NextWindow
    /\ UNCHANGED <<hubPages, messages, all_chunks, built>>
    /\ UNCHANGED runVars
    /\ UNCHANGED nonSyncVars

\* a failure of add_documents handled like a failure of embed: logged, and
\* the window loop continues
AddDocumentsErrContinues ==
    /\ syncPc = "upsert"
    /\ NextWindow
    /\ UNCHANGED <<hubPages, messages, all_chunks, built, engine>>
    /\ UNCHANGED runVars
    /\ UNCHANGED nonSyncVars

\* indexer.add_documents returned Err: process_messages returns it;
\* initial_sync returns it too, realtime_sync logs it and waits for the next
\* event
AddDocumentsErr ==
    /\ syncPc = "upsert"
    /\ syncPc' = IF sse = "none" THEN "failed" ELSE "live"
    /\ UNCHANGED <<hubPages, cursor, st_cursor, st_last_sync_ts, messages,
                   all_chunks, batch_start, built, engine>>
    /\ UNCHANGED runVars
    /\ UNCHANGED nonSyncVars

\* --- the hub's log --------------------------------------------------------

Sessions == {"s1", "s2"}

RECURSIVE LogLen(_)
\* messages in the pages of a log
LogLen(pages) == IF pages = <<>> THEN 0 ELSE Len(Head(pages)) + LogLen(Tail(pages))

Seg(role, chars) == [role |-> role, chars |-> chars]

\* what extract_text gives for a message: nothing; one whitespace-only
\* tool result; a user text that flattens to 749 or to 750 characters;
\* three segments, the middle one whitespace; one text over the target
Shapes ==
    { <<>>,
      <<Seg("tool_result", 0)>>,
      <<Seg("user", 742)>>,
      <<Seg("user", 743)>>,
      <<Seg("assistant", 1), Seg("tool_result", 0), Seg("tool", 20)>>,
      <<Seg("assistant", 1600)>> }

\* the shapes of the pages of a log of several pages
PageShapes == { <<Seg("tool_result", 0)>>, <<Seg("user", 743)>> }

\* a page whose i-th message is the (base + i)-th of the log
MkPage(base, f) ==
    [i \in DOMAIN f |->
        [message_id |-> MsgIdAt(base + i), session_id |-> f[i][2],
         created_at |-> base + i, segments |-> f[i][1]]]

\* k full pages, the messages of page p given by g[p]
PagesOf(k, g) == [p \in 1..k |-> MkPage((p - 1) * MaxBatch, g[p])]

\* the same pages when the hub lists the newest message first
NewestFirst(pages) ==
    [p \in DOMAIN pages |->
        [i \in DOMAIN pages[p] |->
            [pages[p][i] EXCEPT !.created_at = LogLen(pages) + 1 - @]]]

\* a log of up to MaxPages full pages of one session
HubLogPages ==
    \E k \in 0..MaxPages :
       \E g \in [1..k -> [1..MaxBatch -> PageShapes \X {"s1"}]] :
          hubPages = PagesOf(k, g)

\* the hub's log: one page of up to MaxBatch messages of any shape, or up to
\* MaxPages full pages of one session
HubLog ==
    \/ \E n \in 1..MaxBatch :
          \E f \in [1..n -> Shapes \X Sessions] : hubPages = <<MkPage(0, f)>>
    \/ HubLogPages

\* --- realtime_sync --------------------------------------------------------

\* realtime_sync started while initial_sync is still fetching
RealtimeStartEarly ==
    /\ syncPc \in {"fetch", "done"}
    /\ syncPc' = "live"
    /\ runLog' = Append(runLog, "realtime_sync")
    /\ sse' = "open"
    /\ UNCHANGED <<hubPages, cursor, st_cursor, st_last_sync_ts, messages,
                   all_chunks, batch_start, built, engine, since, sseSeen>>
    /\ UNCHANGED nonSyncVars

\* initial_sync returned Ok: run calls realtime_sync, which spawns the
\* listener task (hub.subscribe_events) and waits on rx.recv()
RealtimeStart ==
    /\ syncPc = "done"
    /\ syncPc' = "live"
    /\ runLog' = Append(runLog, "realtime_sync")
    /\ sse' = "open"
    /\ UNCHANGED <<hubPages, cursor, st_cursor, st_last_sync_ts, messages,
                   all_chunks, batch_start, built, engine, since, sseSeen>>
    /\ UNCHANGED nonSyncVars

\* SseEvent::MessageReceived: process_messages(&[msg]) on the new message
SseMessageReceived ==
    /\ syncPc = "live"
    /\ sseSeen < MaxEvents
    /\ sseSeen' = sseSeen + 1
    /\ \E sh \in PageShapes : \E sid \in {"s1"} :
          LET k == LogLen(hubPages) + sseSeen + 1
              msg == [message_id |-> MsgIdAt(k), session_id |-> sid,
                      created_at |-> k, segments |-> sh]
          IN  /\ messages' = <<msg>>
              /\ all_chunks' = AllChunks(<<msg>>)
              /\ syncPc' = IF AllChunks(<<msg>>) = <<>> THEN "live" ELSE "embed"
    /\ batch_start' = 0
    /\ built' = <<>>
    /\ UNCHANGED <<hubPages, cursor, st_cursor, st_last_sync_ts, engine,
                   runLog, since, sse>>
    /\ UNCHANGED nonSyncVars

\* SseEvent::SessionUpdated: the session cache is refreshed, a failure of
\* fetch_sessions is logged
SseSessionUpdated ==
    /\ syncPc = "live"
    /\ sseSeen < MaxEvents
    /\ sseSeen' = sseSeen + 1
    /\ UNCHANGED <<hubPages, syncPc, cursor, st_cursor, st_last_sync_ts, messages,
                   all_chunks, batch_start, built, engine, runLog, since, sse>>
    /\ UNCHANGED nonSyncVars

\* SseEvent::SessionRemoved: remove_session, then delete_session_documents,
\* whose failure is logged; the documents of the model are those of s1
SseSessionRemoved ==
    /\ syncPc = "live"
    /\ sseSeen < MaxEvents
    /\ sseSeen' = sseSeen + 1
    /\ \E sid \in Sessions : \E deleted \in BOOLEAN :
          engine' = IF sid = "s1" /\ deleted THEN {} ELSE engine
    /\ UNCHANGED <<hubPages, syncPc, cursor, st_cursor, st_last_sync_ts, messages,
                   all_chunks, batch_start, built, runLog, since, sse>>
    /\ UNCHANGED nonSyncVars

\* SseEvent::ConnectionChanged: debug!(...)
SseConnectionChanged ==
    /\ syncPc = "live"
    /\ sseSeen < MaxEvents
    /\ sseSeen' = sseSeen + 1
    /\ UNCHANGED <<hubPages, syncPc, cursor, st_cursor, st_last_sync_ts, messages,
                   all_chunks, batch_start, built, engine, runLog, since, sse>>
    /\ UNCHANGED nonSyncVars

\* SseEvent::Unknown => {}
SseUnknown ==
    /\ syncPc = "live"
    /\ sseSeen < MaxEvents
    /\ sseSeen' = sseSeen + 1
    /\ UNCHANGED <<hubPages, syncPc, cursor, st_cursor, st_last_sync_ts, messages,
                   all_chunks, batch_start, built, engine, runLog, since, sse>>
    /\ UNCHANGED nonSyncVars

\* the locals and the search engine before the first page is fetched
SyncFresh ==
    /\ since = 0
    /\ sse = "none"
    /\ sseSeen = 0
    /\ cursor = 0
    /\ st_cursor = 0
    /\ messages = <<>>
    /\ all_chunks = <<>>
    /\ batch_start = 0
    /\ built = <<>>
    /\ engine = {}

\* Syncer::run at its first await, on the sync state an earlier run left:
\* last_sync_ts is ts
RunStart(ts) ==
    /\ syncPc = "init_index"
    /\ runLog = <<"init_index">>
    /\ st_last_sync_ts = ts
    /\ SyncFresh

\* initial_sync at its first fetch, on an empty sync state
SyncIdle ==
    /\ syncPc = "fetch"
    /\ runLog = <<"init_index", "fetch_sessions", "initial_sync">>
    /\ st_last_sync_ts = 0
    /\ SyncFresh

\* --- specifications of the agent ------------------------------------------

\* no task of the agent exists yet, no tunnel is open
\* ------------------------------------------------------------------------
\* socket.rs: the frames SocketClient::connect and the reader task receive
\* ------------------------------------------------------------------------

\* connection.rs: the namespace the agent connects to
NS == <<"/", "c", "l", "i">>

\* A text frame is a sequence of characters.  Three pieces of text are kept
\* whole: a JSON array whose first element is a string, a JSON array whose
\* first element is a number, and a run of 79 ASCII letters.  "{" alone is
\* text that is not JSON.
JsonEvent == "[\"ev\",{}]"
JsonNoName == "[7]"
Fill79 == "x*79"
\* a character of two bytes in UTF-8
EAcute == "e-acute"

\* str::len counts bytes; the JSON pieces are never measured
ByteLen(c) == IF c = Fill79 THEN 79 ELSE IF c = EAcute THEN 2 ELSE 1

RECURSIVE StrBytes(_)
StrBytes(s) == IF s = <<>> THEN 0 ELSE ByteLen(Head(s)) + StrBytes(Tail(s))

\* str::is_char_boundary: the start, the end, and between two characters
IsCharBoundary(s, n) ==
    \E k \in 0..Len(s) :
        \/ StrBytes(SubSeq(s, 1, k)) = n
        \/ /\ k > 0
           /\ s[k] = Fill79
           /\ StrBytes(SubSeq(s, 1, k - 1)) < n
           /\ n < StrBytes(SubSeq(s, 1, k))

\* str::starts_with
StartsWith(s, p) == Len(p) <= Len(s) /\ SubSeq(s, 1, Len(p)) = p

Drop(s, n) == SubSeq(s, n + 1, Len(s))

IsDigit(c) == c \in {"0", "1", "2", "3", "4", "5", "6", "7", "8", "9"}

DigitValue(c) == CHOOSE d \in 0..9 : DigitChar(d) = c

\* rest.chars().take_while(|c| c.is_ascii_digit()).count()
RECURSIVE DigitLen(_)
DigitLen(s) == IF s # <<>> /\ IsDigit(Head(s)) THEN 1 + DigitLen(Tail(s)) ELSE 0

\* str::parse::<i64> of a run of digits
RECURSIVE ParseInt(_)
ParseInt(ds) ==
    IF ds = <<>> THEN 0
    ELSE 10 * ParseInt(SubSeq(ds, 1, Len(ds) - 1)) + DigitValue(ds[Len(ds)])

\* An Option is a sequence of at most one element.
\* serde_json::from_str(rest).ok(): the kind of value the text holds
FromJson(rest) ==
    IF rest = <<JsonEvent>> THEN <<"named">>
    ELSE IF rest = <<JsonNoName>> THEN <<"unnamed">>
    ELSE <<>>

\* parse_sio_packet(input, namespace)
ParseSioPacket(input, namespace) ==
    LET rest0 == Tail(input)
    IN  IF rest0 = <<>> \/ ~IsDigit(Head(rest0)) THEN <<>>
        ELSE LET rest1 == Tail(rest0)
                 rest2 == IF StartsWith(rest1, namespace)
                          THEN LET r == Drop(rest1, Len(namespace))
                               IN  IF StartsWith(r, <<",">>) THEN Tail(r) ELSE r
                          ELSE rest1
                 n     == DigitLen(rest2)
                 rest3 == Drop(rest2, n)
             IN  <<[packet_type |-> DigitValue(Head(rest0)),
                    id      |-> IF n > 0 THEN <<ParseInt(SubSeq(rest2, 1, n))>> ELSE <<>>,
                    payload |-> IF rest3 = <<>> THEN <<>> ELSE FromJson(rest3)]>>

Txt(s) == [kind |-> "text", text |-> s]

\* the texts the hub sends in the model
WireTexts ==
    { <<"0", "{">>,                                   \* engine open
      <<"2">>,                                        \* engine ping
      <<"1">>,                                        \* engine close
      <<"3">>,                                        \* engine pong
      <<"4">>, <<"4", "x">>,                          \* no socket packet
      <<"4", "0">> \o NS \o <<",">>,                  \* connect ack
      <<"4", "0">>,                                   \* connect ack, root namespace
      <<"4", "4">> \o NS \o <<",", "{">>,             \* connect error
      <<"4", "1">> \o NS,                             \* namespace closed
      <<"4", "1">>,                                   \* root namespace closed
      <<"4", "2">> \o NS \o <<",", JsonEvent>>,       \* event
      <<"4", "2">> \o NS \o <<",", JsonNoName>>,      \* event without a name
      <<"4", "2">> \o NS \o <<",", "{">>,             \* event, payload not JSON
      <<"4", "9">> \o NS \o <<",", JsonEvent>>,       \* unknown sub-type
      <<"4", "3">> \o NS \o <<",", "1", JsonEvent>>,  \* ack of id 1
      <<"4", "3">> \o NS \o <<",", "1", "{">>,        \* ack of id 1, payload not JSON
      <<"4", "3">> \o NS \o <<",", JsonEvent>>,       \* ack without id
      <<Fill79, "x">>,                                \* 80 bytes
      <<Fill79, EAcute>> }                            \* 81 bytes, the last two one character

\* what ws_read.next() returns: Some(Ok(frame)), Some(Err(_)) or None
WireFrames ==
    {Txt(s) : s \in WireTexts}
        \cup {[kind |-> k, text |-> <<>>] : k \in {"binary", "close", "error", "eof"}}

WireTaken(f) == rxFrames' = Append(rxFrames, f)

\* connect, lines 61-68: the first frame must be a text starting with '0'; the
\* error message slices the text at byte min(len, 80)
HsOpen(f) ==
    /\ hsPc = "open"
    /\ WireTaken(f)
    /\ hsPc' = IF f.kind = "text"
               THEN IF StartsWith(f.text, <<"0">>) THEN "ack"
                    ELSE LET n == StrBytes(f.text)
                         IN  IF IsCharBoundary(f.text, IF n < 80 THEN n ELSE 80)
                             THEN "err" ELSE "panic"
               ELSE "err"
    /\ hsClock' = 0
    /\ UNCHANGED <<pongs, wEvents>>
    /\ UNCHANGED <<sockVars, nonWireVars>>

\* connect, lines 76-104: one turn of the loop that waits for the connect ack
HsFrame(f) ==
    /\ hsPc = "ack"
    /\ hsClock < ACK_DEADLINE
    /\ Len(rxFrames) < MaxWire
    /\ WireTaken(f)
    /\ hsPc' = IF f.kind = "text"
               THEN IF f.text = <<"2">> THEN "ack"
                    ELSE IF StartsWith(f.text, <<"4", "0">> \o NS) THEN "ok"
                    ELSE IF StartsWith(f.text, <<"4", "4">> \o NS) THEN "err"
                    ELSE IF StartsWith(f.text, <<"4", "1">>) THEN "err"
                    ELSE "ack"
               ELSE IF f.kind \in {"error", "eof"} THEN "err"
               ELSE "ack"
    /\ pongs' = IF f = Txt(<<"2">>) THEN pongs + 1 ELSE pongs
    /\ UNCHANGED <<hsClock, wEvents>>
    /\ UNCHANGED <<sockVars, nonWireVars>>

\* time passes while connect waits
HsTick ==
    /\ hsPc = "ack"
    /\ hsClock < ACK_DEADLINE
    /\ hsClock' = hsClock + TickSecs
    /\ UNCHANGED <<hsPc, rxFrames, pongs, wEvents>>
    /\ UNCHANGED <<sockVars, nonWireVars>>

\* remaining.is_zero(), or timeout(remaining, ..) elapsed
HsTimeout ==
    /\ hsPc = "ack"
    /\ hsClock >= ACK_DEADLINE
    /\ hsPc' = "err"
    /\ WireTaken([kind |-> "timeout", text |-> <<>>])
    /\ UNCHANGED <<hsClock, pongs, wEvents>>
    /\ UNCHANGED <<sockVars, nonWireVars>>

\* connect, lines 107-173: tokio::spawn of the reader task; the locals of
\* connect are gone
ReaderSpawn ==
    /\ hsPc = "ok"
    /\ hsPc' = "read"
    /\ rxFrames' = <<>>
    /\ hsClock' = 0
    /\ pongs' = 0
    /\ UNCHANGED wEvents
    /\ UNCHANGED <<sockVars, nonWireVars>>

\* reader task: the frames that make it leave the loop
EndsReader(f) ==
    \/ f.kind \in {"error", "eof", "close"}
    \/ /\ f.kind = "text"
       /\ f.text # <<"2">>
       /\ \/ StartsWith(f.text, <<"1">>)
          \/ StartsWith(f.text, <<"4", "1">> \o NS)

\* reader task: the packet of a text frame that gets as far as the match on
\* packet_type, nothing for every other frame
PacketOf(f) ==
    IF f.kind # "text" \/ f.text = <<"2">> \/ EndsReader(f)
       \/ ~StartsWith(f.text, <<"4">>)
    THEN <<>>
    ELSE ParseSioPacket(f.text, NS)

\* 3 => if let (Some(id), Some(payload)) = (pkt.id, pkt.payload)
IsAckFor(p) ==
    /\ p # <<>>
    /\ p[1].packet_type = 3
    /\ p[1].id # <<>>
    /\ p[1].payload # <<>>

\* 2 => payload is an array whose element 0 is a string
IsEventFor(p) ==
    /\ p # <<>>
    /\ p[1].packet_type = 2
    /\ p[1].payload = <<"named">>

\* one turn of a loop that is left on a text that is no socket packet
ReaderFrameStrict(f) ==
    /\ hsPc = "read"
    /\ Len(rxFrames) < MaxWire
    /\ WireTaken(f)
    /\ hsPc' = IF EndsReader(f) \/ (f.kind = "text" /\ f.text # <<"2">> /\ PacketOf(f) = <<>>)
               THEN "ended" ELSE "read"
    /\ pongs' = IF f = Txt(<<"2">>) THEN pongs + 1 ELSE pongs
    /\ wEvents' = IF IsEventFor(PacketOf(f)) THEN wEvents + 1 ELSE wEvents
    /\ IF IsAckFor(PacketOf(f))
       THEN LET id  == PacketOf(f)[1].id[1]
                hit == id \in DOMAIN ack_waiters
            IN  /\ ackCount' = ackCount + 1
                /\ lastAck' = [id |-> id, n |-> ackCount + 1, hit |-> hit]
                /\ ack_waiters' = [i \in DOMAIN ack_waiters \ {id} |-> ack_waiters[i]]
                /\ rxSlot' = IF hit /\ RxLive(ack_waiters[id])
                                /\ rxSlot[ack_waiters[id]].st = "empty"
                             THEN [rxSlot EXCEPT ![ack_waiters[id]] =
                                      [st |-> "full", id |-> id, n |-> ackCount + 1]]
                             ELSE rxSlot
       ELSE UNCHANGED <<ackCount, lastAck, ack_waiters, rxSlot>>
    /\ UNCHANGED hsClock
    /\ UNCHANGED <<next_id, callPc, callId, write_rx, writerAlive, wire,
                   txCount, readerSt>>
    /\ UNCHANGED nonWireVars

\* reader task, lines 116-169: one turn of the loop
ReaderFrame(f) ==
    /\ hsPc = "read"
    /\ Len(rxFrames) < MaxWire
    /\ WireTaken(f)
    /\ hsPc' = IF EndsReader(f) THEN "ended" ELSE "read"
    /\ pongs' = IF f = Txt(<<"2">>) THEN pongs + 1 ELSE pongs
    /\ wEvents' = IF IsEventFor(PacketOf(f)) THEN wEvents + 1 ELSE wEvents
    /\ IF IsAckFor(PacketOf(f))
       THEN LET id  == PacketOf(f)[1].id[1]
                hit == id \in DOMAIN ack_waiters
            IN  /\ ackCount' = ackCount + 1
                /\ lastAck' = [id |-> id, n |-> ackCount + 1, hit |-> hit]
                /\ ack_waiters' = [i \in DOMAIN ack_waiters \ {id} |-> ack_waiters[i]]
                /\ rxSlot' = IF hit /\ RxLive(ack_waiters[id])
                                /\ rxSlot[ack_waiters[id]].st = "empty"
                             THEN [rxSlot EXCEPT ![ack_waiters[id]] =
                                      [st |-> "full", id |-> id, n |-> ackCount + 1]]
                             ELSE rxSlot
       ELSE UNCHANGED <<ackCount, lastAck, ack_waiters, rxSlot>>
    /\ UNCHANGED hsClock
    /\ UNCHANGED <<next_id, callPc, callId, write_rx, writerAlive, wire,
                   txCount, readerSt>>
    /\ UNCHANGED nonWireVars

\* connect has returned the client and the reader task runs
WireIdle ==
    /\ hsPc = "read"
    /\ hsClock = 0
    /\ rxFrames = <<>>
    /\ pongs = 0
    /\ wEvents = 0

\* before connect has read anything
WireFresh ==
    /\ hsPc = "open"
    /\ hsClock = 0
    /\ rxFrames = <<>>
    /\ pongs = 0
    /\ wEvents = 0

\* ------------------------------------------------------------------------
\* syncer.rs, hub_client.rs: the live mode and the session cache
\* ------------------------------------------------------------------------

\* hub.get_session(id): Some exactly for a key of the cache
get_session(id) == IF id \in sessions THEN <<id>> ELSE <<>>

\* SseEvent::MessageReceived of session s: process_messages(&[msg]) builds
\* the documents of the message, with the name of the session when the cache
\* has it, and add_documents stores them; a failure is logged
LiveMessageReceived(s) ==
    /\ livePc = "recv"
    /\ liveSeen < MaxLiveEvents
    /\ liveSeen' = liveSeen + 1
    /\ liveEv' = s
    /\ liveOp' = "process_messages"
    /\ \/ index' = index \cup {[msg |-> liveSeen + 1, session_id |-> s,
                                session_name |-> get_session(s)]}
       \/ UNCHANGED index
    /\ UNCHANGED <<sessions, hubSess, livePc>>
    /\ UNCHANGED nonLiveVars

\* SseEvent::SessionUpdated: hub.fetch_sessions(0) inserts every session the
\* hub lists into the cache; a failure is logged
LiveSessionUpdated(s) ==
    /\ livePc = "recv"
    /\ liveSeen < MaxLiveEvents
    /\ liveSeen' = liveSeen + 1
    /\ liveEv' = s
    /\ \/ /\ sessions' = sessions \cup hubSess
          /\ liveOp' = "fetch_sessions"
       \/ /\ UNCHANGED sessions
          /\ liveOp' = "fetch_sessions_err"
    /\ UNCHANGED <<hubSess, index, livePc>>
    /\ UNCHANGED nonLiveVars

\* SessionRemoved handled without the removal from the cache
LiveSessionRemovedKept(s) ==
    /\ livePc = "recv"
    /\ liveSeen < MaxLiveEvents
    /\ liveSeen' = liveSeen + 1
    /\ liveEv' = s
    /\ liveOp' = "remove_session"
    /\ livePc' = "delete"
    /\ UNCHANGED <<sessions, hubSess, index>>
    /\ UNCHANGED nonLiveVars

\* SseEvent::SessionRemoved: self.hub.remove_session(&session_id).await
LiveSessionRemoved(s) ==
    /\ livePc = "recv"
    /\ liveSeen < MaxLiveEvents
    /\ liveSeen' = liveSeen + 1
    /\ liveEv' = s
    /\ liveOp' = "remove_session"
    /\ sessions' = sessions \ {s}
    /\ livePc' = "delete"
    /\ UNCHANGED <<hubSess, index>>
    /\ UNCHANGED nonLiveVars

\* indexer.delete_session_documents(&session_id) returned Ok: the engine has
\* taken the delete by the filter sessionId = "<session_id>"
DeleteSessionDocumentsOk ==
    /\ livePc = "delete"
    /\ index' = {d \in index : d.session_id # liveEv}
    /\ liveOp' = "delete_session_documents"
    /\ livePc' = "recv"
    /\ UNCHANGED <<sessions, hubSess, liveEv, liveSeen>>
    /\ UNCHANGED nonLiveVars

\* indexer.delete_session_documents returned Err: error!(...)
DeleteSessionDocumentsErr ==
    /\ livePc = "delete"
    /\ liveOp' = "delete_session_documents_err"
    /\ livePc' = "recv"
    /\ UNCHANGED <<sessions, hubSess, index, liveEv, liveSeen>>
    /\ UNCHANGED nonLiveVars

\* the hub creates or removes a session
HubSessionChange(s) ==
    /\ hubSess' = IF s \in hubSess THEN hubSess \ {s} ELSE hubSess \cup {s}
    /\ UNCHANGED <<sessions, index, livePc, liveEv, liveOp, liveSeen>>
    /\ UNCHANGED nonLiveVars

\* realtime_sync at its first rx.recv(), after run's fetch_sessions(0) on a
\* hub that listed the sessions in hs and a catch-up that found no message
LiveStart(hs) ==
    /\ sessions = hs
    /\ hubSess = hs
    /\ index = {}
    /\ livePc = "recv"
    /\ liveEv = "s1"
    /\ liveOp = "fetch_sessions"
    /\ liveSeen = 0

LiveIdle == LiveStart({})

\* ------------------------------------------------------------------------
\* syncer.rs: realtime_sync, from the listener's handler to the loop
\* ------------------------------------------------------------------------

\* the variants of SseEvent
SseTypes == {"MessageReceived", "SessionUpdated", "SessionRemoved",
             "ConnectionChanged", "Unknown"}

\* the variants whose arm makes a call that can fail: process_messages,
\* fetch_sessions, delete_session_documents
SseFallible == {"MessageReceived", "SessionUpdated", "SessionRemoved"}

\* a handler that passes an event on only when the channel is empty
OnEventOneSlot(t) ==
    /\ Len(sse_tx_log) < MaxStream
    /\ LET event == [type |-> t, n |-> Len(sse_tx_log) + 1]
       IN  /\ sse_tx_log' = Append(sse_tx_log, event)
           /\ sse_rx' = IF sse_rx = <<>> THEN <<event>> ELSE sse_rx
    /\ UNCHANGED <<sse_cur, sse_done>>
    /\ UNCHANGED nonChanVars

\* subscribe_events calls the handler with a decoded event of variant t:
\* let _ = tx.send(event)
OnEvent(t) ==
    /\ Len(sse_tx_log) < MaxStream
    /\ LET event == [type |-> t, n |-> Len(sse_tx_log) + 1]
       IN  /\ sse_tx_log' = Append(sse_tx_log, event)
           /\ sse_rx' = Append(sse_rx, event)
    /\ UNCHANGED <<sse_cur, sse_done>>
    /\ UNCHANGED nonChanVars

\* while let Some(event) = rx.recv().await: the loop takes the oldest event
RxRecv ==
    /\ sse_cur = <<>>
    /\ sse_rx # <<>>
    /\ sse_cur' = <<Head(sse_rx)>>
    /\ sse_rx' = Tail(sse_rx)
    /\ UNCHANGED <<sse_tx_log, sse_done>>
    /\ UNCHANGED nonChanVars

\* the arm of the event is over; its call returned Ok, or Err, which is logged
ArmDone(outcome) ==
    /\ sse_cur # <<>>
    /\ outcome = "err" => sse_cur[1].type \in SseFallible
    /\ sse_done' = Append(sse_done, [event |-> sse_cur[1], outcome |-> outcome])
    /\ sse_cur' = <<>>
    /\ UNCHANGED <<sse_rx, sse_tx_log>>
    /\ UNCHANGED nonChanVars

\* realtime_sync at its first rx.recv(), no event sent yet
ChanIdle ==
    /\ sse_rx = <<>>
    /\ sse_tx_log = <<>>
    /\ sse_cur = <<>>
    /\ sse_done = <<>>

\* ------------------------------------------------------------------------
\* hub_client.rs: the token manager and subscribe_events
\* ------------------------------------------------------------------------

\* get_jwt: the cached token is returned while it is younger than
\* JWT_REFRESH_SECS; subscribe_events opens the stream with it
GetJwtCached ==
    /\ esPc = "jwt"
    /\ jwt # 0
    /\ jwtAge < JWT_REFRESH_SECS
    /\ esTok' = jwt
    /\ esPc' = "stream"
    /\ UNCHANGED <<jwt, jwtAge, hubAccepts, esFail>>
    /\ UNCHANGED streamVars
    /\ UNCHANGED nonTokVars

\* get_jwt -> refresh_jwt returned Ok: POST /api/auth gave a new token, which
\* is cached with obtained_at = now
RefreshJwtOk ==
    /\ esPc = "jwt"
    /\ jwt = 0 \/ jwtAge >= JWT_REFRESH_SECS
    /\ jwt < MaxTokens
    /\ jwt' = jwt + 1
    /\ jwtAge' = 0
    /\ hubAccepts' = hubAccepts \cup {jwt + 1}
    /\ esTok' = jwt + 1
    /\ esPc' = "stream"
    /\ UNCHANGED esFail
    /\ UNCHANGED streamVars
    /\ UNCHANGED nonTokVars

\* refresh_jwt returned Err: error!(...), sleep 5 s, continue
RefreshJwtErr ==
    /\ esPc = "jwt"
    /\ jwt = 0 \/ jwtAge >= JWT_REFRESH_SECS
    /\ esPc' = "sleep"
    /\ UNCHANGED <<jwt, jwtAge, hubAccepts, esTok, esFail>>
    /\ UNCHANGED streamVars
    /\ UNCHANGED nonTokVars

\* es.next() gave Err because the hub answered the request with a status
\* that is not a success: break, es.close(), sleep
StreamRefused ==
    /\ esPc = "stream"
    /\ esTok \notin hubAccepts
    /\ esFail' = "auth"
    /\ esPc' = "sleep"
    /\ UNCHANGED <<jwt, jwtAge, hubAccepts, esTok>>
    /\ UNCHANGED streamVars
    /\ UNCHANGED nonTokVars

\* es.next() gave StreamEnded or another error: break, es.close(), sleep
StreamEnded ==
    /\ esPc = "stream"
    /\ esFail' = "other"
    /\ esPc' = "sleep"
    /\ UNCHANGED <<jwt, jwtAge, hubAccepts, esTok>>
    /\ UNCHANGED streamVars
    /\ UNCHANGED nonTokVars

\* es.next() gave an item of the given kind that leaves the stream open; the
\* hub sends on a stream it accepted the token of
StreamItem(kind) ==
    /\ esPc = "stream"
    /\ esTok \in hubAccepts
    /\ esItems < MaxItems
    /\ esItems' = esItems + 1
    /\ esLast' = kind
    /\ UNCHANGED <<jwt, jwtAge, hubAccepts, esPc, esTok, esFail>>
    /\ UNCHANGED nonTokVars

\* Ok(Event::Open): info!("SSE connected")
EsOpen == StreamItem("open") /\ UNCHANGED esCalls

\* Ok(Event::Message(msg)) with msg.data empty: continue
EsEmptyData == StreamItem("empty") /\ UNCHANGED esCalls

\* a payload that does not decode closes the stream like a stream error
EsUndecodableBreaks ==
    /\ esPc = "stream"
    /\ esTok \in hubAccepts
    /\ esItems < MaxItems
    /\ esItems' = esItems + 1
    /\ esLast' = "undecodable"
    /\ esFail' = "other"
    /\ esPc' = "sleep"
    /\ UNCHANGED <<jwt, jwtAge, hubAccepts, esTok, esCalls>>
    /\ UNCHANGED nonTokVars

\* Ok(Event::Message(msg)), serde_json::from_str gave Err: debug!(...)
EsUndecodable == StreamItem("undecodable") /\ UNCHANGED esCalls

\* Ok(Event::Message(msg)), serde_json::from_str gave Ok: on_event(sse_event)
EsMessage == StreamItem("message") /\ esCalls' = esCalls + 1

\* tokio::time::sleep(5 s) is over: the loop starts its next turn
EsSleepDone ==
    /\ esPc = "sleep"
    /\ esPc' = "jwt"
    /\ UNCHANGED <<jwt, jwtAge, hubAccepts, esTok, esFail>>
    /\ UNCHANGED streamVars
    /\ UNCHANGED nonTokVars

\* time passes; the hub stops accepting a token JWT_VALID_SECS after it
\* issued it
JwtClock ==
    /\ jwtAge < MaxJwtAge
    /\ jwtAge' = jwtAge + JwtTick
    /\ hubAccepts' = IF jwtAge + JwtTick >= JWT_VALID_SECS
                     THEN hubAccepts \ {jwt} ELSE hubAccepts
    /\ UNCHANGED <<jwt, esPc, esTok, esFail>>
    /\ UNCHANGED streamVars
    /\ UNCHANGED nonTokVars

\* the hub stops accepting a token before that: it was restarted with
\* another signing key, or its clock is ahead
HubRevokes(t) ==
    /\ t \in hubAccepts
    /\ hubAccepts' = hubAccepts \ {t}
    /\ UNCHANGED <<jwt, jwtAge, esPc, esTok, esFail>>
    /\ UNCHANGED streamVars
    /\ UNCHANGED nonTokVars

\* subscribe_events at its first turn; run's fetch_sessions(0) has obtained
\* the first token
TokIdle ==
    /\ jwt = 1
    /\ jwtAge = 0
    /\ hubAccepts = {1}
    /\ esPc = "jwt"
    /\ esTok = 0
    /\ esFail = "none"
    /\ esItems = 0
    /\ esLast = "none"
    /\ esCalls = 0

\* ------------------------------------------------------------------------
\* search.rs: search and compute_name_boost
\* ------------------------------------------------------------------------

\* a character of three bytes in UTF-8
Han == "han"

\* str::len of a text of the search, in bytes
Utf8Len(s) ==
    LET RECURSIVE Sum(_)
        Sum(t) == IF t = <<>> THEN 0
                  ELSE (IF Head(t) = Han THEN 3 ELSE ByteLen(Head(t))) + Sum(Tail(t))
    IN  Sum(s)

\* char::to_lowercase on the letters the model uses
LowerChar(c) ==
    CASE c = "V" -> "v"
      [] c = "E" -> "e"
      [] c = "C" -> "c"
      [] c = "D" -> "d"
      [] c = "B" -> "b"
      [] OTHER -> c

\* str::to_lowercase
to_lowercase(s) == [i \in DOMAIN s |-> LowerChar(s[i])]

\* c.is_whitespace() || c == ',' || c == the ideographic comma
IsSeparator(c) == c \in {" ", ",", "ideographic-comma"}

\* str::split(pred): the pieces between separators, empty ones included
RECURSIVE SplitAt(_, _)
SplitAt(s, cur) ==
    IF s = <<>> THEN <<cur>>
    ELSE IF IsSeparator(Head(s)) THEN <<cur>> \o SplitAt(Tail(s), <<>>)
    ELSE SplitAt(Tail(s), Append(cur, Head(s)))

\* str::contains
Contains(s, t) ==
    \E k \in 0..(Len(s) - Len(t)) : SubSeq(s, k + 1, k + Len(t)) = t

\* the tokens of compute_name_boost: .filter(|t| !t.is_empty() && t.len() > 2)
QueryTokens(query_lower) ==
    SelectSeq(SplitAt(query_lower, <<>>), LAMBDA t : t # <<>> /\ Utf8Len(t) > 2)

\* compute_name_boost counting every piece of the query, short ones too
compute_name_boost_all(session_name, query_lower) ==
    IF session_name = <<>> THEN 0
    ELSE LET name_lower   == to_lowercase(session_name)
             query_tokens == SelectSeq(SplitAt(query_lower, <<>>), LAMBDA t : t # <<>>)
             matched      == Len(SelectSeq(query_tokens,
                                           LAMBDA t : Contains(name_lower, t)))
         IN  IF query_tokens = <<>> THEN 0
             ELSE (NAME_BOOST * matched) \div Len(query_tokens)

\* compute_name_boost(session_name, query_lower), in units
compute_name_boost(session_name, query_lower) ==
    IF session_name = <<>> THEN 0
    ELSE LET name_lower   == to_lowercase(session_name)
             query_tokens == QueryTokens(query_lower)
             matched      == Len(SelectSeq(query_tokens,
                                           LAMBDA t : Contains(name_lower, t)))
         IN  IF query_tokens = <<>> THEN 0
             ELSE (NAME_BOOST * matched) \div Len(query_tokens)

\* the queries, session names and ranking scores of the model
Queries ==
    { <<"V", "E", "C">>,
      <<"v", "e", "c", " ", "d", "b", ",", "a", "b", "c">>,
      <<Han, "ideographic-comma", "v", "e", "c", " ", "a", "b", "c">>,
      <<"D", "B", ",", " ", "a">> }

Names == { <<>>, <<"V", "e", "c", " ", "D", "B">>, <<"a", "b", "c", Han>> }

Scores == {420, 426, 432}

\* the hits the engine may return: sessionId, sessionName, _rankingScore
EngineHits == [session_id : Sessions, session_name : Names, ranking_score : Scores]

\* embedder.embed_query(query) returned Ok
EmbedQueryOk ==
    /\ searchPc = "embed"
    /\ searchPc' = "engine"
    /\ UNCHANGED <<query, limit, offset, hits, nextHit, groups, session_results,
                   response>>
    /\ UNCHANGED nonSearchVars

\* embed_query or indexer.search returned Err: the ? returns it from search
SearchErr ==
    /\ searchPc \in {"embed", "engine"}
    /\ searchPc' = "failed"
    /\ UNCHANGED <<query, limit, offset, hits, nextHit, groups, session_results,
                   response>>
    /\ UNCHANGED nonSearchVars

\* indexer.search returned the engine's hits, best first
EngineSearchOk ==
    /\ searchPc = "engine"
    /\ \E n \in 0..MaxHits : \E hs \in [1..n -> EngineHits] : hits' = hs
    /\ nextHit' = 1
    /\ searchPc' = "group"
    /\ UNCHANGED <<query, limit, offset, groups, session_results, response>>
    /\ UNCHANGED nonSearchVars

\* the SearchHit built from the n-th hit of the engine
SearchHitOf(hit, n) ==
    [session_id |-> hit.session_id, session_name |-> hit.session_name, n |-> n,
     score |-> hit.ranking_score
                  + compute_name_boost(hit.session_name, to_lowercase(query))]

\* the group entry of a session updated with a hit
GroupWith(search_hit) ==
    LET sid == search_hit.session_id
        old == IF sid \in DOMAIN groups THEN groups[sid]
               ELSE [best_hit |-> search_hit, chunk_count |-> 0]
    IN  [best_hit    |-> IF search_hit.score > old.best_hit.score
                         THEN search_hit ELSE old.best_hit,
         chunk_count |-> old.chunk_count + 1]

\* one turn of a loop that keeps the hit seen last
GroupHitLast ==
    /\ searchPc = "group"
    /\ nextHit <= Len(hits)
    /\ LET search_hit == SearchHitOf(hits[nextHit], nextHit)
           sid == search_hit.session_id
       IN  groups' = [s \in DOMAIN groups \cup {sid} |->
                         IF s = sid
                         THEN [GroupWith(search_hit) EXCEPT !.best_hit = search_hit]
                         ELSE groups[s]]
    /\ nextHit' = nextHit + 1
    /\ UNCHANGED <<searchPc, query, limit, offset, hits, session_results, response>>
    /\ UNCHANGED nonSearchVars

\* for hit in result.hits: one turn of the loop
GroupHit ==
    /\ searchPc = "group"
    /\ nextHit <= Len(hits)
    /\ LET search_hit == SearchHitOf(hits[nextHit], nextHit)
           sid == search_hit.session_id
       IN  groups' = [s \in DOMAIN groups \cup {sid} |->
                         IF s = sid THEN GroupWith(search_hit) ELSE groups[s]]
    /\ nextHit' = nextHit + 1
    /\ UNCHANGED <<searchPc, query, limit, offset, hits, session_results, response>>
    /\ UNCHANGED nonSearchVars

\* the comparator of sort_by: a is not after b
NotAfter(a, b) ==
    \/ a.best_hit.score > b.best_hit.score
    \/ a.best_hit.score = b.best_hit.score /\ a.chunk_count >= b.chunk_count

\* groups.into_values().collect() in the map's order, whatever it is, then
\* the stable sort_by
SortGroups ==
    /\ searchPc = "group"
    /\ nextHit > Len(hits)
    /\ \E order \in [1..Cardinality(DOMAIN groups) -> DOMAIN groups] :
          /\ \A i, j \in DOMAIN order : i # j => order[i] # order[j]
          /\ \A i \in 1..(Len(order) - 1) :
                NotAfter(groups[order[i]], groups[order[i + 1]])
          /\ session_results' = [i \in DOMAIN order |-> groups[order[i]]]
    /\ searchPc' = "sorted"
    /\ UNCHANGED <<query, limit, offset, hits, nextHit, groups, response>>
    /\ UNCHANGED nonSearchVars

\* .skip(offset).take(limit).map(|g| g.best_hit)
TakePage ==
    /\ searchPc = "sorted"
    /\ LET last == IF offset + limit < Len(session_results)
                   THEN offset + limit ELSE Len(session_results)
       IN  response' = [i \in 1..(IF last > offset THEN last - offset ELSE 0) |->
                           session_results[offset + i].best_hit]
    /\ searchPc' = "done"
    /\ UNCHANGED <<query, limit, offset, hits, nextHit, groups, session_results>>
    /\ UNCHANGED nonSearchVars

\* search called with query q, limit l and offset o
SearchStart(q, l, o) ==
    /\ searchPc = "embed"
    /\ query = q
    /\ limit = l
    /\ offset = o
    /\ hits = <<>>
    /\ nextHit = 1
    /\ groups = <<>>
    /\ session_results = <<>>
    /\ response = <<>>

SearchIdle == SearchStart(<<>>, 1, 0)

\* ------------------------------------------------------------------------
\* hapi-search: process_messages called twice on one list (syncer.rs)
\* ------------------------------------------------------------------------

Runs == 1..2

\* the names the cache may hold for a session; <<>> is a session that is not
\* in the cache or has neither name nor summary
CacheNames == { <<>>, <<"n">> }

\* the session name of process_messages: get_session, metadata, name or
\* summary, unwrap_or("")
MetaName(session_id) == rpCache[session_id]

\* SearchDocument of a chunk; the vector is the embedder's
Document(chunk) ==
    [id |-> DocId(chunk), message_id |-> chunk.message_id,
     session_id |-> chunk.session_id, role |-> chunk.role, text |-> chunk.text,
     session_name |-> MetaName(chunk.session_id),
     created_at |-> chunk.created_at]

\* documents of the window that starts at start
WindowDocs(chunks, start) ==
    LET batch_end == IF start + EMBED_BATCH_SIZE < Len(chunks)
                     THEN start + EMBED_BATCH_SIZE ELSE Len(chunks)
    IN  [i \in 1..(batch_end - start) |-> Document(chunks[start + i])]

\* the index after add_documents: a document replaces the one of its id, the
\* last of an id in the payload stays
Upsert(idx, docs) ==
    {d \in idx : \A i \in DOMAIN docs : docs[i].id # d.id}
        \cup {docs[i] : i \in {j \in DOMAIN docs :
                                  \A k \in DOMAIN docs : k > j => docs[k].id # docs[j].id}}

\* all_chunks when the sessions are taken in the order of a hash map, which
\* differs from call to call
ReplayChunksHashed(msgs) ==
    LET order == SessionOrder(msgs, {})
        rev   == [i \in DOMAIN order |-> order[Len(order) + 1 - i]]
    IN  IF rpRun = 2 THEN ChunksOf(msgs, rev) ELSE ChunksOf(msgs, order)

\* all_chunks: the sessions in session_order, each chunked
ReplayChunks(msgs) == AllChunks(msgs)

\* process_messages returns ret: the next call begins, or both are over
ReplayReturn(ret, idx) ==
    /\ rpRet' = [rpRet EXCEPT ![rpRun] = ret]
    /\ rpAfter' = [rpAfter EXCEPT ![rpRun] = idx]
    /\ rpStart' = 0
    /\ rpDocs' = <<>>
    /\ IF rpRun = 1
       THEN rpRun' = 2 /\ rpPc' = "start"
       ELSE rpRun' = rpRun /\ rpPc' = "done"

\* the window loop goes on, or process_messages returns Ok
ReplayNextWindow(idx) ==
    IF rpStart + EMBED_BATCH_SIZE >= Len(rpChunks)
    THEN ReplayReturn("ok", idx)
    ELSE /\ rpStart' = rpStart + EMBED_BATCH_SIZE
         /\ rpDocs' = <<>>
         /\ rpPc' = "embed"
         /\ UNCHANGED <<rpRun, rpRet, rpAfter>>

\* the embedder's outcome in the second call is the one of the first call
\* for the same window, as far as the first call came
SameEmbedderOutcome(o) ==
    LET w == Len(rpEmbed[rpRun]) + 1
    IN  (rpRun = 2 /\ w <= Len(rpEmbed[1])) => rpEmbed[1][w] = o

\* messages of the call that runs
ReplayBatch == IF rpRun = 1 THEN rpFirst ELSE rpMsgs

\* a call begins: grouping and chunking; no chunk returns Ok
ReplayBegin ==
    /\ rpPc = "start"
    /\ rpChunks' = ReplayChunks(ReplayBatch)
    /\ IF ReplayChunks(ReplayBatch) = <<>>
       THEN ReplayReturn("ok", rpIndex)
       ELSE /\ rpPc' = "embed"
            /\ rpStart' = 0
            /\ rpDocs' = <<>>
            /\ UNCHANGED <<rpRun, rpRet, rpAfter>>
    /\ UNCHANGED <<rpMsgs, rpFirst, rpCache, rpBuilt, rpEmbed, rpAdd, rpIndex>>
    /\ UNCHANGED nonReplayVars

\* embedder.embed returned the vectors: the documents of the window are built
ReplayEmbedOk ==
    /\ rpPc = "embed"
    /\ SameEmbedderOutcome("ok")
    /\ rpEmbed' = [rpEmbed EXCEPT ![rpRun] = Append(@, "ok")]
    /\ rpDocs' = WindowDocs(rpChunks, rpStart)
    /\ rpBuilt' = [rpBuilt EXCEPT ![rpRun] = @ \o WindowDocs(rpChunks, rpStart)]
    /\ rpPc' = "upsert"
    /\ UNCHANGED <<rpRun, rpMsgs, rpFirst, rpCache, rpChunks, rpStart, rpAdd, rpIndex,
                   rpAfter, rpRet>>
    /\ UNCHANGED nonReplayVars

\* a failure of embed handled like a failure of add_documents: returned
ReplayEmbedErrReturns ==
    /\ rpPc = "embed"
    /\ SameEmbedderOutcome("err")
    /\ rpEmbed' = [rpEmbed EXCEPT ![rpRun] = Append(@, "err")]
    /\ ReplayReturn("err", rpIndex)
    /\ UNCHANGED <<rpMsgs, rpFirst, rpCache, rpChunks, rpBuilt, rpAdd, rpIndex>>
    /\ UNCHANGED nonReplayVars

\* embedder.embed returned Err: error!(...); continue
ReplayEmbedErr ==
    /\ rpPc = "embed"
    /\ SameEmbedderOutcome("err")
    /\ rpEmbed' = [rpEmbed EXCEPT ![rpRun] = Append(@, "err")]
    /\ ReplayNextWindow(rpIndex)
    /\ UNCHANGED <<rpMsgs, rpFirst, rpCache, rpChunks, rpBuilt, rpAdd, rpIndex>>
    /\ UNCHANGED nonReplayVars

\* indexer.add_documents returned Ok
ReplayAddOk ==
    /\ rpPc = "upsert"
    /\ rpAdd' = [rpAdd EXCEPT ![rpRun] = Append(@, "ok")]
    /\ rpIndex' = Upsert(rpIndex, rpDocs)
    /\ ReplayNextWindow(Upsert(rpIndex, rpDocs))
    /\ UNCHANGED <<rpMsgs, rpFirst, rpCache, rpChunks, rpBuilt, rpEmbed>>
    /\ UNCHANGED nonReplayVars

\* indexer.add_documents returned Err: the ? returns it
ReplayAddErr ==
    /\ rpPc = "upsert"
    /\ rpAdd' = [rpAdd EXCEPT ![rpRun] = Append(@, "err")]
    /\ ReplayReturn("err", rpIndex)
    /\ UNCHANGED <<rpMsgs, rpFirst, rpCache, rpChunks, rpBuilt, rpEmbed, rpIndex>>
    /\ UNCHANGED nonReplayVars

\* before a call on first that a call on msgs follows, with the cache c
RebatchStart(first, msgs, c, pc) ==
    /\ rpPc = pc
    /\ rpRun = 1
    /\ rpMsgs = msgs
    /\ rpFirst = first
    /\ rpCache = c
    /\ rpChunks = <<>>
    /\ rpStart = 0
    /\ rpDocs = <<>>
    /\ rpBuilt = [r \in Runs |-> <<>>]
    /\ rpEmbed = [r \in Runs |-> <<>>]
    /\ rpAdd = [r \in Runs |-> <<>>]
    /\ rpIndex = {}
    /\ rpAfter = [r \in Runs |-> {}]
    /\ rpRet = [r \in Runs |-> "none"]

\* before the first of two calls on msgs with the cache c
ReplayStart(msgs, c, pc) == RebatchStart(msgs, msgs, c, pc)

ReplayIdle == ReplayStart(<<>>, [s \in Sessions |-> <<>>], "done")

\* ------------------------------------------------------------------------
\* hapi-search: truncate_str (text_extract.rs)
\* ------------------------------------------------------------------------

\* s.chars().count()
CharsCount(s) == Len(s)

\* s.chars().take(keep).collect()
CharsTake(s, keep) == SubSeq(s, 1, IF keep < Len(s) THEN keep ELSE Len(s))

\* s.chars().skip(k).collect()
CharsSkip(s, k) == SubSeq(s, k + 1, Len(s))

Dots == <<".", ".", ".">>

\* truncate_str measuring s in bytes (s.len()) where the code counts chars
truncate_str_bytes(s, max_chars) ==
    LET char_count == Utf8Len(s)
    IN  IF char_count <= max_chars THEN s
        ELSE LET keep == max_chars \div 2
             IN  CharsTake(s, keep) \o Dots \o CharsSkip(s, char_count - keep)

\* truncate_str(s, max_chars)
truncate_str(s, max_chars) ==
    LET char_count == CharsCount(s)
    IN  IF char_count <= max_chars THEN s
        ELSE LET keep == max_chars \div 2
             IN  CharsTake(s, keep) \o Dots \o CharsSkip(s, char_count - keep)

\* the characters of the strings of the model: two of one byte, one of three
StrChars == {"a", "b", Han}

\* truncate_str is called and returns
TruncateStr ==
    /\ tsPc = "call"
    /\ ts_out' = truncate_str(ts_s, ts_max_chars)
    /\ tsPc' = "done"
    /\ UNCHANGED <<ts_s, ts_max_chars>>
    /\ UNCHANGED nonTruncVars

\* before the call truncate_str(s, n)
TruncStart(s, n, pc) ==
    /\ tsPc = pc
    /\ ts_s = s
    /\ ts_max_chars = n
    /\ ts_out = <<>>

TruncIdle == TruncStart(<<>>, 0, "done")

\* ------------------------------------------------------------------------
\* happier: a tunnel:open event from the handler to the dial
\* (connection.rs on_event, tunnel.rs run)
\* ------------------------------------------------------------------------

\* the width of u16
U16 == 65536

\* Value::as_u64: the number, when the JSON value is a non-negative integer
as_u64(j) == IF j.kind = "int" /\ j.v >= 0 THEN <<j.v>> ELSE <<>>

\* Value::as_str
as_str(j) == IF j.kind = "string" THEN <<j.s>> ELSE <<>>

\* Option::unwrap_or
unwrap_or(o, d) == IF o = <<>> THEN d ELSE o[1]

\* `n as u16`: the low 16 bits
as_u16(n) == n % U16

\* data["port"].as_u64().unwrap_or(0) as u16
PortOf(data) == as_u16(unwrap_or(as_u64(data.port), 0))

\* data["tunnelId"].as_str().unwrap_or("")
TunnelIdOf(data) == unwrap_or(as_str(data.tunnelId), "")

\* the handler's early return
OpenIgnored(data) == TunnelIdOf(data) = "" \/ PortOf(data) = 0

\* SocketEvent::TunnelOpen { tunnel_id, host, port }
TunnelOpenEvent(data) ==
    [tunnel_id |-> TunnelIdOf(data), host |-> as_str(data.host), port |-> PortOf(data)]

\* "tunnel:open" with an empty id or a port that reads as 0: the handler returns
OnTunnelOpenIgnored ==
    /\ poPc = "event"
    /\ OpenIgnored(po_data)
    /\ poPc' = "done"
    /\ UNCHANGED <<po_data, po_full, po_event, po_dial>>
    /\ UNCHANGED nonPortVars

\* "tunnel:open" accepted, try_send finds a free slot
OnTunnelOpenSent ==
    /\ poPc = "event"
    /\ ~OpenIgnored(po_data)
    /\ ~po_full
    /\ po_event' = <<TunnelOpenEvent(po_data)>>
    /\ poPc' = "queued"
    /\ UNCHANGED <<po_data, po_full, po_dial>>
    /\ UNCHANGED nonPortVars

\* "tunnel:open" accepted, try_send finds the channel full: the error is dropped
OnTunnelOpenDropped ==
    /\ poPc = "event"
    /\ ~OpenIgnored(po_data)
    /\ po_full
    /\ poPc' = "done"
    /\ UNCHANGED <<po_data, po_full, po_event, po_dial>>
    /\ UNCHANGED nonPortVars

\* the manager takes the TunnelOpen and handle_tunnel_open dials
TunnelOpenDial ==
    /\ poPc = "queued"
    /\ LET ev == po_event[1]
           target_host == unwrap_or(ev.host, "127.0.0.1")
       IN  po_dial' = <<[host |-> target_host, port |-> ev.port]>>
    /\ poPc' = "done"
    /\ UNCHANGED <<po_data, po_full, po_event>>
    /\ UNCHANGED nonPortVars

\* JSON values
JNull == [kind |-> "null", v |-> 0, s |-> ""]
JInt(n) == [kind |-> "int", v |-> n, s |-> ""]
JFloat(n) == [kind |-> "float", v |-> n, s |-> ""]
JStr(x) == [kind |-> "string", v |-> 0, s |-> x]

\* the numbers a hub may put in "port": around 0, inside 1..65535, around the
\* width of u16 and a multiple of it
PortNumbers ==
    {-1, 0, 1, 80, 8080, U16 - 1, U16, U16 + 1, U16 + 80, U16 + 8080,
     2 * U16, 2 * U16 + 1}

PortValues ==
    {JInt(n) : n \in PortNumbers} \cup {JFloat(80), JStr("80"), JNull}

\* before the handler is called with data
PortStart(data, full, pc) ==
    /\ poPc = pc
    /\ po_data = data
    /\ po_full = full
    /\ po_event = <<>>
    /\ po_dial = <<>>

PortIdle ==
    PortStart([tunnelId |-> JNull, port |-> JNull, host |-> JNull], FALSE, "done")

NoTasks ==
    /\ reader = "none"
    /\ initAck = FALSE
    /\ fwd = "none"
    /\ sockUp = FALSE
    /\ ka = "none"
    /\ event_rx = <<>>
    /\ mgr = "none"
    /\ mgrEv = NoEvent
    /\ tunnels = {}
    /\ rdPump = [t \in Tunnels |-> "none"]
    /\ wrPump = [t \in Tunnels |-> "none"]
    /\ wchan = [t \in Tunnels |-> <<>>]
    /\ tcpOut = [t \in Tunnels |-> <<>>]
    /\ upFrames = [t \in Tunnels |-> <<>>]
    /\ tunFrames = [t \in Tunnels |-> <<>>]
    /\ hubSt = [t \in Tunnels |-> "closed"]
    /\ hubSent = [t \in Tunnels |-> 0]
    /\ tcpIn = [t \in Tunnels |-> 0]

\* run() after register_machine, before the first connect
AgentIdle ==
    /\ mainPc = "connect"
    /\ registered = TRUE
    /\ attempt = 0
    /\ delay = 1
    /\ sig = FALSE
    /\ backoff = 1
    /\ waits = <<>>
    /\ sent = <<>>
    /\ NoTasks

\* run() at the first POST of register_machine
AgentBoot ==
    /\ mainPc = "register"
    /\ registered = FALSE
    /\ attempt = 1
    /\ delay = 1
    /\ sig = FALSE
    /\ backoff = 1
    /\ waits = <<>>
    /\ sent = <<>>
    /\ NoTasks

\* steps of the agent's own tasks
MainStep ==
    \/ RegisterOk
    \/ RegisterAttemptFailed
    \/ RegisterSleepDone
    \/ ConnectOk
    \/ ConnectFail
    \/ RetrySleepDone
    \/ RetrySignal
    \/ InitialAcked
    \/ InitialFailed
    \/ InitFailSleepDone
    \/ SelectTunnelDone
    \/ SelectSignal
    \/ PauseDone
    \/ PauseSignal

ForwarderStep == FwdStart \/ FwdSend

ManagerStep ==
    \/ MgrTunnelOpen
    \/ MgrOpenRefused
    \/ MgrOpenEmitFailed
    \/ MgrOpenReady
    \/ MgrTunnelData
    \/ MgrSendDone
    \/ MgrTunnelClose
    \/ MgrDisconnected

PumpStep ==
    \E t \in Tunnels : PumpEmit(t) \/ PumpWrite(t)

InitAgent == AgentBoot /\ SockIdle /\ WireIdle /\ hubPages = <<>> /\ SyncIdle /\ LiveIdle /\ TokIdle /\ SearchIdle /\ ReplayIdle /\ TruncIdle /\ PortIdle /\ ChanIdle

NextAgent ==
    \/ RegisterOk
    \/ RegisterAttemptFailed
    \/ RegisterSleepDone
    \/ SignalArrives
    \/ ConnectOk
    \/ ConnectFail
    \/ RetrySleepDone
    \/ RetrySignal
    \/ ReaderInitAck
    \/ InitialAcked
    \/ InitialFailed
    \/ InitFailSleepDone
    \/ SelectTunnelDone
    \/ SelectSignal
    \/ PauseDone
    \/ PauseSignal
    \/ KeepAliveTick
    \/ SocketWriterDies
    \/ \E t \in Tunnels : ReaderTunnelOpen(t)
    \/ \E t \in Tunnels : ReaderTunnelData(t)
    \/ \E t \in Tunnels : ReaderTunnelBadData(t)
    \/ \E t \in Tunnels : ReaderTunnelClose(t)
    \/ ReaderEnd
    \/ FwdStart
    \/ FwdSend
    \/ MgrTunnelOpen
    \/ MgrOpenRefused
    \/ MgrOpenEmitFailed
    \/ MgrOpenReady
    \/ MgrTunnelData
    \/ MgrSendDone
    \/ MgrTunnelClose
    \/ MgrDisconnected
    \/ \E t \in Tunnels : PumpReadData(t)
    \/ \E t \in Tunnels : PumpReadEof(t)
    \/ \E t \in Tunnels : PumpReadError(t)
    \/ \E t \in Tunnels : PumpEmit(t)
    \/ \E t \in Tunnels : PumpWrite(t)
    \/ \E t \in Tunnels : PumpWriteError(t)

SpecAgent == InitAgent /\ [][NextAgent]_vars

\* The runtime polls every task that is ready, timers fire, and the local
\* TCP peer takes what is written to it; the hub and the network are free.
AgentProgress ==
    /\ WF_vars(MainStep)
    /\ WF_vars(ForwarderStep)
    /\ WF_vars(ManagerStep)
    /\ WF_vars(PumpStep)

SpecAgentFair == SpecAgent /\ AgentProgress

\* The runtime polls every task that is ready and timers fire, but the local
\* TCP peer of a tunnel need not take what is written to it.
PeerFreeProgress ==
    /\ WF_vars(MainStep)
    /\ WF_vars(ForwarderStep)
    /\ WF_vars(ManagerStep)
    /\ WF_vars(\E t \in Tunnels : PumpEmit(t))

SpecAgentPeerFree == SpecAgent /\ PeerFreeProgress

InitSock == SockIdle /\ WireIdle /\ AgentIdle /\ hubPages = <<>> /\ SyncIdle /\ LiveIdle /\ TokIdle /\ SearchIdle /\ ReplayIdle /\ TruncIdle /\ PortIdle /\ ChanIdle

NextSock ==
    \/ \E c \in Calls : AllocId(c)
    \/ \E c \in Calls : InsertWaiter(c)
    \/ \E c \in Calls : SendAckPacket(c)
    \/ \E c \in Calls : AwaitAck(c)
    \/ Emit
    \/ Disconnect
    \/ WriterSend
    \/ WriterFail
    \/ ReaderPing
    \/ ReaderPong
    \/ \E id \in AckIds : ReaderAck(id)

SpecSock == InitSock /\ [][NextSock]_vars

\* A task inside emit_with_ack is polled whenever it can go on: the lock is
\* free, the queue has room or is closed, the reply or the timer is there.
\* Nothing makes the socket take what the writer task writes: the writer may
\* stay in ws_write.send for ever.
CallsProgress ==
    \A c \in Calls :
        /\ WF_vars(InsertWaiter(c))
        /\ WF_vars(SendAckPacket(c))
        /\ WF_vars(AwaitAck(c))

SpecSockFair == SpecSock /\ CallsProgress

InitSync == HubLog /\ SyncIdle /\ SockIdle /\ WireIdle /\ AgentIdle /\ LiveIdle /\ TokIdle /\ SearchIdle /\ ReplayIdle /\ TruncIdle /\ PortIdle /\ ChanIdle

NextSync ==
    \/ FetchOk
    \/ FetchErr
    \/ EmbedOk
    \/ EmbedErr
    \/ AddDocumentsOk
    \/ AddDocumentsErr

SpecSync == InitSync /\ [][NextSync]_vars

\* SocketClient::connect, then the reader task against the waiters that
\* emit_with_ack calls register
InitWire == WireFresh /\ SockIdle /\ AgentIdle /\ hubPages = <<>> /\ SyncIdle /\ LiveIdle /\ TokIdle /\ SearchIdle /\ ReplayIdle /\ TruncIdle /\ PortIdle /\ ChanIdle

NextWire ==
    \/ \E f \in WireFrames : HsOpen(f)
    \/ \E f \in WireFrames : HsFrame(f)
    \/ HsTick
    \/ HsTimeout
    \/ ReaderSpawn
    \/ \E f \in WireFrames : ReaderFrame(f)
    \/ \E c \in Calls : hsPc = "read" /\ AllocId(c)
    \/ \E c \in Calls : hsPc = "read" /\ InsertWaiter(c)

SpecWire == InitWire /\ [][NextWire]_vars

\* realtime_sync's loop over the session cache and the engine's documents
InitLive ==
    /\ \E hs \in SUBSET Sessions : LiveStart(hs)
    /\ SockIdle /\ WireIdle /\ AgentIdle /\ hubPages = <<>> /\ SyncIdle /\ TokIdle /\ SearchIdle /\ ReplayIdle /\ TruncIdle /\ PortIdle /\ ChanIdle

NextLive ==
    \/ \E s \in Sessions : LiveMessageReceived(s)
    \/ \E s \in Sessions : LiveSessionUpdated(s)
    \/ \E s \in Sessions : LiveSessionRemoved(s)
    \/ DeleteSessionDocumentsOk
    \/ DeleteSessionDocumentsErr
    \/ \E s \in Sessions : HubSessionChange(s)

SpecLive == InitLive /\ [][NextLive]_vars

\* subscribe_events and the token manager against the hub's clock
InitEvents ==
    /\ TokIdle
    /\ SockIdle /\ WireIdle /\ AgentIdle /\ hubPages = <<>> /\ SyncIdle /\ LiveIdle /\ SearchIdle /\ ReplayIdle /\ TruncIdle /\ PortIdle /\ ChanIdle

NextEvents ==
    \/ GetJwtCached
    \/ RefreshJwtOk
    \/ RefreshJwtErr
    \/ StreamRefused
    \/ StreamEnded
    \/ EsSleepDone
    \/ EsOpen
    \/ EsEmptyData
    \/ EsUndecodable
    \/ EsMessage
    \/ JwtClock
    \/ \E t \in 1..MaxTokens : HubRevokes(t)

SpecEvents == InitEvents /\ [][NextEvents]_vars

\* the sleep of subscribe_events ends
SpecEventsFair == SpecEvents /\ WF_vars(EsSleepDone)

\* one search request over any hits of the engine
InitSearch ==
    /\ \E q \in Queries : \E l \in 1..MaxLimit : \E o \in 0..(MaxLimit - 1) :
          SearchStart(q, l, o)
    /\ SockIdle /\ WireIdle /\ AgentIdle /\ hubPages = <<>> /\ SyncIdle
    /\ LiveIdle /\ TokIdle /\ ReplayIdle /\ TruncIdle /\ PortIdle /\ ChanIdle

NextSearch ==
    \/ EmbedQueryOk
    \/ SearchErr
    \/ EngineSearchOk
    \/ GroupHit
    \/ SortGroups
    \/ TakePage

SpecSearch == InitSearch /\ [][NextSearch]_vars

\* process_messages twice on a list of up to MaxReplay messages of any shape
\* in two sessions, under any session cache
InitReplay ==
    /\ \E n \in 1..MaxReplay :
          \E f \in [1..n -> Shapes \X Sessions] :
             \E c \in [Sessions -> CacheNames] :
                ReplayStart(MkPage(0, f), c, "start")
    /\ SockIdle /\ WireIdle /\ AgentIdle /\ hubPages = <<>> /\ SyncIdle
    /\ LiveIdle /\ TokIdle /\ SearchIdle /\ TruncIdle /\ PortIdle /\ ChanIdle

NextReplay ==
    \/ ReplayBegin
    \/ ReplayEmbedOk
    \/ ReplayEmbedErr
    \/ ReplayAddOk
    \/ ReplayAddErr

SpecReplay == InitReplay /\ [][NextReplay]_vars

\* the shapes of the messages that are processed twice: a user text that
\* flattens to 749 characters, and one text over the target
RebatchShapes == { <<Seg("user", 742)>>, <<Seg("assistant", 1600)>> }

\* the contiguous non-empty parts of a list
Parts(msgs) ==
    {SubSeq(msgs, i, j) : i \in 1..Len(msgs), j \in 1..Len(msgs)} \ {<<>>}

\* a message or a run of messages is processed (a message-received event, or
\* a page), and later a page that holds it with others: a catch-up after a
\* restart
InitRebatch ==
    /\ \E n \in 1..MaxReplay :
          \E f \in [1..n -> RebatchShapes \X Sessions] :
             \E first \in Parts(MkPage(0, f)) :
                RebatchStart(first, MkPage(0, f), [s \in Sessions |-> <<>>], "start")
    /\ SockIdle /\ WireIdle /\ AgentIdle /\ hubPages = <<>> /\ SyncIdle
    /\ LiveIdle /\ TokIdle /\ SearchIdle /\ TruncIdle /\ PortIdle /\ ChanIdle

SpecRebatch == InitRebatch /\ [][NextReplay]_vars

\* truncate_str on every string of up to MaxStr characters and every
\* max_chars up to MaxChars
InitTrunc ==
    /\ \E k \in 0..MaxStr : \E s \in [1..k -> StrChars] :
          \E n \in 0..MaxChars : TruncStart(s, n, "call")
    /\ SockIdle /\ WireIdle /\ AgentIdle /\ hubPages = <<>> /\ SyncIdle
    /\ LiveIdle /\ TokIdle /\ SearchIdle /\ ReplayIdle /\ PortIdle /\ ChanIdle

NextTrunc == TruncateStr

SpecTrunc == InitTrunc /\ [][NextTrunc]_vars

\* one tunnel:open event with every payload of the model, the event channel
\* full or not
InitPort ==
    /\ \E id \in {JNull, JStr(""), JStr("t1"), JInt(7)} :
          \E p \in PortValues :
             \E h \in {JNull, JStr("10.0.0.5")} :
                \E full \in BOOLEAN :
                   PortStart([tunnelId |-> id, port |-> p, host |-> h], full, "event")
    /\ SockIdle /\ WireIdle /\ AgentIdle /\ hubPages = <<>> /\ SyncIdle
    /\ LiveIdle /\ TokIdle /\ SearchIdle /\ ReplayIdle /\ TruncIdle /\ ChanIdle

NextPort ==
    \/ OnTunnelOpenIgnored
    \/ OnTunnelOpenSent
    \/ OnTunnelOpenDropped
    \/ TunnelOpenDial

SpecPort == InitPort /\ [][NextPort]_vars

\* realtime_sync: the listener's handler and the loop, on any events
InitChan ==
    /\ ChanIdle
    /\ SockIdle /\ WireIdle /\ AgentIdle /\ hubPages = <<>> /\ SyncIdle
    /\ LiveIdle /\ TokIdle /\ SearchIdle /\ ReplayIdle /\ TruncIdle /\ PortIdle

NextChan ==
    \/ \E t \in SseTypes : OnEvent(t)
    \/ RxRecv
    \/ \E o \in {"ok", "err"} : ArmDone(o)

SpecChan == InitChan /\ [][NextChan]_vars

\* the loop's task is scheduled, and each call an arm awaits returns
ChanProgress == WF_vars(RxRecv) /\ WF_vars(\E o \in {"ok", "err"} : ArmDone(o))

SpecChanFair == SpecChan /\ ChanProgress

\* Syncer::run from its first step to live mode, on the state an earlier run
\* may have left
InitRun ==
    /\ \E k \in 0..MaxPages :
          \E g \in [1..k -> [1..MaxBatch -> PageShapes \X {"s1"}]] :
             hubPages \in {PagesOf(k, g), NewestFirst(PagesOf(k, g))}
    /\ \E ts \in 0..MaxSince : RunStart(ts)
    /\ SockIdle
    /\ WireIdle
    /\ LiveIdle /\ TokIdle /\ SearchIdle /\ ReplayIdle /\ TruncIdle /\ PortIdle /\ ChanIdle
    /\ AgentIdle

NextRun ==
    \/ InitIndexOk
    \/ InitIndexErr
    \/ FetchSessionsOk
    \/ FetchSessionsErr
    \/ NextSync
    \/ RealtimeStart
    \/ SseMessageReceived
    \/ SseSessionUpdated
    \/ SseSessionRemoved
    \/ SseConnectionChanged
    \/ SseUnknown

SpecRun == InitRun /\ [][NextRun]_vars

\* ------------------------------------------------------------------------
\* Claims on the socket client
\* ------------------------------------------------------------------------

HasId(c) == callPc[c] # "idle"
Got(c) == rxSlot[c].st = "full"

\* C1: concurrent emit_with_ack calls hold pairwise distinct ack ids, the ids
\* handed out are exactly 1 .. next_id-1; a call's receiver only ever holds a
\* reply carrying the call's own id; one reply frame reaches at most one
\* call; a reply that found no registered waiter, or whose call has already
\* returned, reaches nobody.
C1_AckIsolation ==
    /\ \A c, d \in Calls : HasId(c) /\ HasId(d) /\ c # d => callId[c] # callId[d]
    /\ {callId[c] : c \in {d \in Calls : HasId(d)}} = 1..(next_id - 1)
    /\ \A c \in Calls : Got(c) => rxSlot[c].id = callId[c]
    /\ \A c, d \in Calls : Got(c) /\ Got(d) /\ c # d => rxSlot[c].n # rxSlot[d].n
    /\ ~lastAck.hit => \A c \in Calls : Got(c) => rxSlot[c].n # lastAck.n
    /\ \A c \in Calls : callPc[c] = "timeout" => ~Got(c)

\* two calls have each returned their own reply, and the last frame the
\* reader saw (a duplicate or an unknown id) found no waiter
C1_Witness ==
    /\ \E c, d \in Calls : c # d /\ callPc[c] = "ok" /\ callPc[d] = "ok"
    /\ lastAck.n > 0 /\ ~lastAck.hit

\* C8: the writer task writes the frames in the order in which the write
\* queue accepted them, each once: the wire holds the frames tagged
\* 1, 2, 3, ... and, while the writer runs, the queue holds the next ones in
\* order, none missing.
C8_WireOrder ==
    /\ \A i \in 1..Len(wire) : wire[i] = i
    /\ \A i \in 1..Len(write_rx) : write_rx[i].tag = txCount - Len(write_rx) + i
    /\ writerAlive => Len(wire) + Len(write_rx) = txCount

\* frames of an emit_with_ack call and of other producers were written, and
\* two more from different producers are queued behind them
C8_Witness ==
    /\ Len(wire) >= 2
    /\ Len(write_rx) = 2
    /\ write_rx[1].kind # write_rx[2].kind
    /\ OtherFrames >= 1
    /\ \E c \in Calls : callPc[c] = "wait"

\* the call has returned or not yet started
Returned(c) == callPc[c] \in {"idle", "ok", "timeout", "recv_error", "write_error"}

\* the part of C21 on the call that is answered: a call returns Ok only with
\* the frame its receiver holds, which carries its id; a call waiting with a
\* reply in its receiver returns that reply; the waiter of a delivered reply
\* is gone
C21_ReplyReturned ==
    /\ [](\A c \in Calls :
            /\ callPc[c] = "ok" => Got(c) /\ rxSlot[c].id = callId[c]
            /\ Got(c) => callId[c] \notin DOMAIN ack_waiters)
    /\ [][\A c \in Calls :
            callPc[c] = "wait" /\ Got(c) /\ callPc'[c] # "wait" =>
                callPc'[c] = "ok" /\ rxSlot'[c] = rxSlot[c]]_vars

\* C21: a call whose ack frame arrived in time returns the payload of that
\* frame and its waiter is removed, and once a call has been answered and no
\* call is in progress the ack-waiter map is empty.
C21_AckRoundTrip ==
    /\ C21_ReplyReturned
    /\ []((\E c \in Calls : callPc[c] = "ok") /\ (\A d \in Calls : Returned(d))
            => ack_waiters = <<>>)

\* emit_with_ack has returned Ok or Err
CallDone(c) == callPc[c] \in {"ok", "timeout", "recv_error", "write_error"}

\* C22: every emit_with_ack call that has started returns, with the reply,
\* the timeout error or a write error, also when the writer task is stalled
\* on a full write queue.
C22_CallReturns == \A c \in Calls : (callPc[c] = "alloc") ~> CallDone(c)

\* the part of C22 on a call whose frame the queue has accepted
C22_AcceptedCallReturns == \A c \in Calls : (callPc[c] = "wait") ~> CallDone(c)

\* ------------------------------------------------------------------------
\* Claims on the agent
\* ------------------------------------------------------------------------

\* C2: whenever the reader loop of a connection has ended, the connection
\* loop eventually starts a new connect attempt (Disconnected reaches the
\* tunnel manager and the manager returns), whatever the order of the reader
\* and the forwarder; a signal may end the agent instead.
C2_ReaderEndReconnects == (reader = "done") ~> (mainPc \in {"connect", "exited"})

\* the payloads of the tunnel:data events queued for tunnel t, in queue order
RECURSIVE QueuedData(_, _)
QueuedData(q, t) ==
    IF q = <<>> THEN <<>>
    ELSE LET e == Head(q)
         IN  (IF e.type = "TunnelData" /\ e.id = t /\ e.data # 0
              THEN <<e.data>> ELSE <<>>) \o QueuedData(Tail(q), t)

\* the payload the manager holds while it waits for room in the write channel
HeldData(t) ==
    IF mgr = "sending" /\ mgrEv.id = t THEN <<mgrEv.data>> ELSE <<>>

\* C3: for an open tunnel with a working TCP socket, the payloads written to
\* the socket, followed by those in the write channel, the one the manager
\* holds and those in the event queue, are exactly the payloads the hub has
\* sent, each once and in order: nothing is discarded on the way.
C3_DataExactlyOnce ==
    \A t \in tunnels :
        wrPump[t] = "running" /\ hubSt[t] \in {"open", "half"} =>
            tcpOut[t] \o wchan[t] \o HeldData(t) \o QueuedData(event_rx, t)
                = [i \in 1..hubSent[t] |-> i]

\* the read pump of t has emitted tunnel:close after EOF and has ended
EofClosed(t) ==
    /\ rdPump[t] = "done"
    /\ upFrames[t] # <<>>
    /\ upFrames[t][Len(upFrames[t])] = "close"

\* C5: once the read pump has emitted tunnel:close after EOF and the manager
\* is idle with nothing queued, the handle is no longer in the tunnel map.
C5_EofRemovesHandle ==
    \A t \in Tunnels :
        EofClosed(t) /\ mgr = "recv" /\ event_rx = <<>> => t \notin tunnels

\* C6: once TunnelClose(id) is processed the map has no entry for id and no
\* pump of id exists; a tunnel without a handle gets no further frame
\* submitted and no further byte written.
C6_ClosedTunnelSilent ==
    /\ [](mgrEv.type = "TunnelClose" =>
            /\ mgrEv.id \notin tunnels
            /\ rdPump[mgrEv.id] = "none"
            /\ wrPump[mgrEv.id] = "none")
    /\ [][\A t \in Tunnels :
            t \notin tunnels /\ t \notin tunnels' =>
                upFrames'[t] = upFrames[t] /\ tcpOut'[t] = tcpOut[t]]_vars

\* every payload the hub sent was written, the read pump had submitted a
\* frame, and then TunnelClose took the handle away
C6_Witness ==
    /\ mgrEv.type = "TunnelClose"
    /\ mgr = "recv"
    /\ sockUp
    /\ hubSent[mgrEv.id] >= 1
    /\ Len(tcpOut[mgrEv.id]) = hubSent[mgrEv.id]
    /\ upFrames[mgrEv.id] = <<"data">>

\* C7: when the manager has processed Disconnected no handle and no pump is
\* left, and none exists while the connection loop is outside select, in
\* particular when the next connection is established.
C7_DisconnectClearsAll ==
    mgr = "returned" \/ mainPc # "select" =>
        /\ tunnels = {}
        /\ \A t \in Tunnels : rdPump[t] = "none" /\ wrPump[t] = "none"

\* Disconnected met a tunnel the hub had not closed and whose pumps had worked
C7_Witness ==
    /\ mgr = "returned"
    /\ mgrEv.type = "Disconnected"
    /\ \E t \in Tunnels :
          /\ hubSt[t] = "open"
          /\ hubSent[t] >= 1
          /\ Len(tcpOut[t]) = hubSent[t]
          /\ upFrames[t] = <<"data">>

\* ------------------------------------------------------------------------
\* Claims on the indexer
\* ------------------------------------------------------------------------

\* C4: the persisted sync state is past a page only if every chunk produced
\* from that page has been handed to the search engine.
C4_StateAdvancesOnlyWhenIndexed ==
    \A p \in 1..st_cursor :
        \A i \in 1..Len(AllChunks(hubPages[p])) :
            DocId(AllChunks(hubPages[p])[i]) \in engine

\* C9: within one process_messages pass no two chunks share the pair
\* (message_id, chunk_index), and all document ids built are pairwise
\* distinct strings.
C9_DocIdsDistinct ==
    /\ \A i, j \in 1..Len(all_chunks) :
          i # j =>
            /\ <<all_chunks[i].message_id, all_chunks[i].chunk_index>>
                 # <<all_chunks[j].message_id, all_chunks[j].chunk_index>>
            /\ DocId(all_chunks[i]) # DocId(all_chunks[j])
    /\ \A i, j \in 1..Len(built) : i # j => built[i] # built[j]

C9_Witness ==
    /\ Len(all_chunks) = 3
    /\ Len(built) = 3
    /\ \E i, j \in 1..3 :
          /\ i # j
          /\ all_chunks[i].chunk_index = all_chunks[j].chunk_index
          /\ all_chunks[i].session_id # all_chunks[j].session_id
    /\ \E i \in 1..3 : all_chunks[i].chunk_index = 1

\* the messages of session s in the page, in arrival order
SessionRun(s) == SelectSeq(messages, LAMBDA m : m.session_id = s)

\* the newline-join of the flattened texts, those that are not empty, of the
\* messages i..j of the list L
RunText(L, i, j) ==
    JoinNL(SelectSeq([k \in 1..(j - i + 1) |-> flatten_segments(L[i + k - 1])],
                     LAMBDA t : t # <<>>))

\* the blocks of message mid in a text
BlocksOf(text, mid) == SelectSeq(text, LAMBDA b : b.mid = mid)

\* C10: every chunk's text is the newline-join of the flattened texts of a
\* contiguous run of the messages of one session in arrival order, and every
\* message with a non-empty flattened text lies, whole, in exactly one chunk.
C10_ChunksAreRuns ==
    /\ \A k \in 1..Len(all_chunks) :
          \E s \in Sessions :
             /\ all_chunks[k].session_id = s
             /\ \E i, j \in 1..Len(SessionRun(s)) :
                   /\ i <= j
                   /\ all_chunks[k].text = RunText(SessionRun(s), i, j)
    /\ \A n \in 1..Len(messages) :
          flatten_segments(messages[n]) # <<>> =>
             \E k \in 1..Len(all_chunks) :
                /\ BlocksOf(all_chunks[k].text, messages[n].message_id)
                     = BlocksOf(flatten_segments(messages[n]), messages[n].message_id)
                /\ \A h \in 1..Len(all_chunks) :
                      h # k => BlocksOf(all_chunks[h].text, messages[n].message_id) = <<>>

C10_Witness ==
    /\ Len(messages) = 3
    /\ Len(all_chunks) = 2
    /\ messages[2].session_id # messages[1].session_id
    /\ flatten_segments(messages[2]) # <<>>
    /\ \E k \in 1..2 :
          /\ BlocksOf(all_chunks[k].text, messages[1].message_id) # <<>>
          /\ BlocksOf(all_chunks[k].text, messages[3].message_id) # <<>>
    /\ syncPc = "done"

\* ------------------------------------------------------------------------
\* Claims on Syncer::run
\* ------------------------------------------------------------------------

IsPrefix(a, b) == Len(a) <= Len(b) /\ a = SubSeq(b, 1, Len(a))

RunOrder == <<"init_index", "fetch_sessions", "initial_sync", "realtime_sync">>

\* C11: run starts its steps in the order init_index, fetch_sessions,
\* initial_sync, realtime_sync; a step is started only from the successful
\* end of the one before; after a failure of one of the first three nothing
\* more is started; the event stream is subscribed only once initial_sync has
\* returned Ok.
C11_RunOrder ==
    /\ [](/\ IsPrefix(runLog, RunOrder)
          /\ (sse = "open" <=> runLog = RunOrder)
          /\ (syncPc \in {"fetch", "done"} => Len(runLog) = 3)
          /\ (syncPc \in {"embed", "upsert"} => Len(runLog) >= 3)
          /\ (syncPc = "live" => Len(runLog) = 4)
          /\ (syncPc = "fetch_sessions" => Len(runLog) = 2))
    /\ [][/\ (runLog' # runLog =>
               /\ syncPc \in {"init_index", "fetch_sessions", "done"}
               /\ runLog' = Append(runLog, RunOrder[Len(runLog) + 1]))
          /\ (sse' # sse => syncPc = "done" /\ sse' = "open")
          /\ (syncPc = "failed" => syncPc' = "failed" /\ runLog' = runLog /\ sse' = sse)
          /\ (syncPc' = "failed" /\ syncPc # "failed" => runLog' = runLog /\ sse = "none")]_vars

\* live mode was entered after a catch-up that fetched every page of a log of
\* two pages
C11_Witness ==
    /\ sse = "open"
    /\ syncPc = "live"
    /\ Len(hubPages) = 2
    /\ st_cursor = 2

\* created_at of the last message of the p-th page
LastTs(p) == hubPages[p][Len(hubPages[p])].created_at

\* C12: in catch-up a page is completed only when every document built from
\* it was accepted by add_documents; when add_documents fails initial_sync
\* ends with the error, fetches nothing more, and messages_cursor and
\* last_sync_ts are the ones persisted for the previous page; in live mode
\* the failure does not end run: the loop is back at the event queue and the
\* sync state is untouched. The previous page is the one before the failing
\* page or, after a response without cursor, the failing page itself in an
\* earlier fetch.
C12_AddDocumentsFailure ==
    /\ [](sse = "none" /\ syncPc \in {"fetch", "done"} => SeqRange(built) \subseteq engine)
    /\ [](sse = "none" /\ Len(runLog) = 3 /\ syncPc \in {"embed", "upsert", "failed"} =>
             /\ st_cursor = cursor
             /\ st_last_sync_ts \in
                   (IF cursor = 0 THEN {since} ELSE {LastTs(cursor)}) \cup
                   {LastTs(p) : p \in {cursor + 1} \cap DOMAIN hubPages})
    /\ [][syncPc' = "failed" /\ syncPc # "failed" =>
             UNCHANGED <<cursor, st_cursor, st_last_sync_ts, engine>>]_vars
    /\ [][syncPc = "failed" =>
             UNCHANGED <<syncPc, cursor, st_cursor, st_last_sync_ts, engine>>]_vars
    /\ [](sse = "open" => syncPc # "failed")
    /\ [][sse = "open" /\ syncPc = "upsert" =>
             /\ syncPc' \in {"embed", "live"}
             /\ UNCHANGED <<cursor, st_cursor, st_last_sync_ts>>]_vars

\* add_documents failed on the second page: a document was built and is not
\* in the engine, the sync state is the one of the first page
C12_Witness ==
    /\ syncPc = "failed"
    /\ cursor = 1
    /\ st_cursor = 1
    /\ built # <<>>
    /\ ~(SeqRange(built) \subseteq engine)

\* every message of the hub's pages has created_at >= since
PagesNotBelowSince ==
    \A p \in 1..Len(hubPages) : \A i \in 1..Len(hubPages[p]) :
       hubPages[p][i].created_at >= since

\* initial_sync has returned Ok
CatchUpDone == syncPc = "done" \/ Len(runLog) = 4

\* C13: when initial_sync has returned Ok over pages whose messages all have
\* created_at >= since, the persisted last_sync_ts is >= since, the value
\* that was persisted when the pass started.
C13_LastSyncTsMonotone ==
    CatchUpDone /\ PagesNotBelowSince => st_last_sync_ts >= since

\* a pass that started from a persisted last_sync_ts of 1 and stored the
\* timestamp of the last message of a second page listed newest first
C13_Witness ==
    /\ syncPc = "done"
    /\ since = 1
    /\ Len(hubPages) = 2
    /\ hubPages[1][1].created_at > hubPages[2][1].created_at
    /\ PagesNotBelowSince
    /\ st_cursor = 2
    /\ st_last_sync_ts = 1

\* without the condition on the pages the timestamp can go back
C13_Unconditional == CatchUpDone => st_last_sync_ts >= since

\* ------------------------------------------------------------------------
\* Claims on the connection loop
\* ------------------------------------------------------------------------

\* C14: a SIGINT or SIGTERM delivered while the connection loop runs always
\* leads to the exit of the agent, and an exit from the connected state
\* aborts keep-alive and submits the close frame first.
C14_SignalLeadsToExit ==
    /\ sig ~> (mainPc = "exited")
    /\ [][mainPc = "select" /\ mainPc' = "exited" =>
             /\ ka' = "none"
             /\ sockUp => sent' = Append(sent, "close")]_vars

\* the k-th wait after a successful connect (or after the start)
WaitAt(k) == Min(2 ^ (k - 1), MAX_BACKOFF)

\* C15: backoff stays within 1 s .. 30 s; every sleep before a reconnect
\* lasts the current backoff and doubles it, capped at 30 s; a successful
\* connect resets it to 1 s; so the waits since the last successful connect
\* (or since the start) are 1, 2, 4, 8, 16, 30, 30, ...
C15_Backoff ==
    /\ [](/\ backoff >= 1
          /\ backoff <= MAX_BACKOFF
          /\ backoff = Min(2 ^ Len(waits), MAX_BACKOFF)
          /\ \A k \in 1..Len(waits) : waits[k] = WaitAt(k))
    /\ [][/\ (mainPc \in {"retry_sleep", "init_fail_sleep", "pause"} /\ mainPc' = "connect" =>
               /\ waits' = Append(waits, backoff)
               /\ backoff' = Min(2 * backoff, MAX_BACKOFF))
          /\ (mainPc = "connect" /\ mainPc' = "initial" => backoff' = 1 /\ waits' = <<>>)
          /\ (mainPc' = mainPc \/ mainPc' \notin {"connect", "initial"} =>
               UNCHANGED <<backoff, waits>>)]_vars

\* seven connects in a row have failed
C15_Witness ==
    /\ mainPc = "connect"
    /\ waits = <<1, 2, 4, 8, 16, 30, 30>>
    /\ backoff = 30

\* C16: on every connection machine-update-state is the first event
\* submitted; keep_alive and tunnel::run exist only on a connection whose
\* initial state was acknowledged, so machine-alive is emitted only there;
\* when emit_initial_state fails neither task is started, the close frame is
\* handed to the socket (which takes it while its writer is alive) and the
\* loop sleeps and reconnects.
C16_InitialStateFirst ==
    /\ [](/\ (sent # <<>> => sent[1] = "machine-update-state")
          /\ (mainPc \in {"initial", "init_fail_sleep"} =>
                ka = "none" /\ mgr = "none" /\ tunnels = {})
          /\ (ka = "running" \/ mgr \in {"recv", "opening", "sending"} => initAck)
          /\ (Count(sent, "machine-alive") > 0 => initAck))
    /\ [][/\ (mainPc = "initial" /\ mainPc' # "initial" /\ ~initAck =>
               /\ mainPc' = "init_fail_sleep"
               /\ sent' = SendFrame(sent, "close")
               /\ ka' = "none"
               /\ mgr' = "none")
          /\ (mainPc = "init_fail_sleep" => mainPc' \in {"init_fail_sleep", "connect"})]_vars

\* a connection whose initial state was not acknowledged: the close frame
\* follows machine-update-state and no task was started
C16_Witness ==
    /\ mainPc = "init_fail_sleep"
    /\ ~initAck
    /\ sent = <<"machine-update-state", "close">>
    /\ ka = "none"
    /\ mgr = "none"

\* min(2^(k-1), max_delay), the power taken only where it is below the cap
RegDelay(k) == IF k >= 6 THEN max_delay ELSE Min(2 ^ (k - 1), max_delay)

InRegister == mainPc \in {"register", "reg_sleep", "fatal"}

\* C20: register_machine makes at most 60 attempts; the sleep after the k-th
\* failed attempt lasts min(2^(k-1), 30) s and there is none after the 60th,
\* after which it returns Err; the first success returns at once; run()
\* reaches the connection loop only with registration succeeded.
C20_Register ==
    /\ [](/\ attempt <= max_attempts
          /\ (mainPc \in {"register", "reg_sleep"} =>
                attempt >= 1 /\ delay = RegDelay(attempt) /\ ~registered)
          /\ (mainPc = "reg_sleep" => attempt < max_attempts)
          /\ (mainPc = "fatal" => attempt = max_attempts /\ ~registered)
          /\ (~InRegister => registered /\ attempt = 0))
    /\ [][/\ (mainPc = "register" /\ mainPc' = "reg_sleep" =>
               attempt < max_attempts /\ UNCHANGED <<attempt, delay>>)
          /\ (mainPc = "reg_sleep" /\ mainPc' # mainPc =>
               mainPc' = "register" /\ attempt' = attempt + 1)
          /\ (mainPc = "register" /\ ~InRegister' => mainPc' = "connect" /\ registered')
          /\ (mainPc = "fatal" => mainPc' = "fatal")
          /\ (registered => registered' /\ ~InRegister')]_vars

\* the 60th attempt has failed after 59 sleeps
C20_Witness ==
    /\ mainPc = "fatal"
    /\ attempt = 60
    /\ delay = 30
    /\ ~registered

\* ------------------------------------------------------------------------
\* Claims on tunnel errors
\* ------------------------------------------------------------------------

\* the read pump of t has ended on a read error, tunnel:error submitted
ReadErrored(t) ==
    /\ rdPump[t] = "done"
    /\ upFrames[t] # <<>>
    /\ upFrames[t][Len(upFrames[t])] = "error"

\* the write pump of t has ended on a write error
WriteErrored(t) == wrPump[t] = "done"

\* C19: once a pump of a tunnel has ended on a TCP error and the manager is
\* idle with nothing queued on a live socket, the handle is out of the tunnel
\* map and tunnel:error was submitted for the tunnel.
C19_TcpErrorDestroysTunnel ==
    \A t \in Tunnels :
        (ReadErrored(t) \/ WriteErrored(t)) /\ sockUp /\ mgr = "recv" /\ event_rx = <<>> =>
            /\ t \notin tunnels
            /\ Count(upFrames[t], "error") > 0

\* ------------------------------------------------------------------------
\* Claims on the frames the socket client receives
\* ------------------------------------------------------------------------

IsPing(f) == f = Txt(<<"2">>)

\* the frames that decide the wait for the connect ack
IsConnectAck(f) == f.kind = "text" /\ ~IsPing(f) /\ StartsWith(f.text, <<"4", "0">> \o NS)

EndsHandshake(f) ==
    \/ f.kind \in {"error", "eof", "timeout"}
    \/ /\ f.kind = "text"
       /\ \/ StartsWith(f.text, <<"4", "4">> \o NS)
          \/ StartsWith(f.text, <<"4", "1">>)

IsOpenPacket(f) == f.kind = "text" /\ StartsWith(f.text, <<"0">>)

\* the first frame is an open packet and nothing after it has decided the wait
StillWaiting(F) ==
    /\ Len(F) >= 1
    /\ IsOpenPacket(F[1])
    /\ \A i \in 2..Len(F) : ~IsConnectAck(F[i]) /\ ~EndsHandshake(F[i])

Accepted(F) ==
    /\ Len(F) >= 2
    /\ StillWaiting(SubSeq(F, 1, Len(F) - 1))
    /\ IsConnectAck(F[Len(F)])

InHandshake == hsPc \in {"open", "ack", "ok", "err", "panic"}

\* C17: connect returns the client exactly when the first frame is a text
\* starting with '0' and a frame starting with 40<ns> comes before the
\* deadline and before any 44<ns> frame, 41 frame, read error or end of the
\* stream; for every other sequence of frames it returns an error; the reader
\* task is started only by a connect that returns the client; every ping
\* taken while waiting is answered with one '3'; no frame moves the deadline.
C17_Handshake ==
    /\ [](InHandshake /\ rxFrames # <<>> =>
            /\ (hsPc = "ok") = Accepted(rxFrames)
            /\ (hsPc = "ack") = StillWaiting(rxFrames)
            /\ (hsPc = "err") = (~Accepted(rxFrames) /\ ~StillWaiting(rxFrames))
            /\ pongs = Cardinality({i \in 2..Len(rxFrames) : IsPing(rxFrames[i])})
            /\ hsPc = "ok" => hsClock < ACK_DEADLINE)
    /\ [][hsPc' = "read" => hsPc \in {"ok", "read"}]_vars
    /\ [][hsPc = "ack" /\ hsPc' = "ack" => hsClock' >= hsClock]_vars

\* the same without the sentence on every other case
C17_AcceptedOnly ==
    InHandshake /\ rxFrames # <<>> =>
        /\ (hsPc = "ok") = Accepted(rxFrames)
        /\ (hsPc = "ack") = StillWaiting(rxFrames)
        /\ pongs = Cardinality({i \in 2..Len(rxFrames) : IsPing(rxFrames[i])})
        /\ hsPc = "ok" => hsClock < ACK_DEADLINE

\* the frames the reader loop is said to end on
EndsLoop(f) ==
    \/ f.kind \in {"close", "error", "eof"}
    \/ f.kind = "text" /\ StartsWith(f.text, <<"1">>)
    \/ f.kind = "text" /\ StartsWith(f.text, <<"4", "1">> \o NS)

\* the frames the reader acts on: a ping, an ack with id and payload, an
\* event with a string name
Handled(f) ==
    \/ IsPing(f)
    \/ /\ f.kind = "text"
       /\ StartsWith(f.text, <<"4">>)
       /\ LET p == ParseSioPacket(f.text, NS)
          IN  \/ IsAckFor(p)
              \/ IsEventFor(p)

Dropped(f) == ~EndsLoop(f) /\ ~Handled(f)

\* C18: the reader loop has ended only after one of the five ending frames,
\* and a frame that is neither ending nor acted on leaves the loop running,
\* the ack-waiter map and the receivers as they were, and calls no handler.
C18_ReaderLoop ==
    /\ [](hsPc = "ended" => EndsLoop(rxFrames[Len(rxFrames)]))
    /\ [](hsPc = "read" => \A i \in 1..Len(rxFrames) : ~EndsLoop(rxFrames[i]))
    /\ [][hsPc = "read" /\ rxFrames' # rxFrames /\ Dropped(rxFrames'[Len(rxFrames')]) =>
            /\ hsPc' = "read"
            /\ ack_waiters' = ack_waiters
            /\ rxSlot' = rxSlot
            /\ pongs' = pongs
            /\ wEvents' = wEvents]_vars

\* after an ack frame for id 1 whose payload is not JSON and a text that is
\* no packet, the loop has taken the ack of id 1 and found its waiter
C18_Witness ==
    /\ hsPc = "read"
    /\ rxFrames = <<Txt(<<"4", "3">> \o NS \o <<",", "1", "{">>),
                    Txt(<<"4", "x">>),
                    Txt(<<"4", "3">> \o NS \o <<",", "1", JsonEvent>>)>>
    /\ lastAck.hit
    /\ 1 \notin DOMAIN ack_waiters

\* ------------------------------------------------------------------------
\* Claims on the live mode and the session cache
\* ------------------------------------------------------------------------

\* C23: while the delete for a removed session is pending the session is
\* already out of the cache and get_session finds nothing; documents leave
\* the index only by that delete; after a delete that returned Ok no
\* document of the session is in the index and the documents of the other
\* sessions are still there; a session comes back into the cache only by a
\* fetch_sessions of a hub that lists it.
C23_SessionRemoved ==
    /\ [](livePc = "delete" => liveEv \notin sessions /\ get_session(liveEv) = <<>>)
    /\ [][~(index \subseteq index') =>
            livePc = "delete" /\ liveOp' = "delete_session_documents"]_vars
    /\ [][livePc = "delete" /\ liveOp' = "delete_session_documents" =>
            /\ \A d \in index' : d.session_id # liveEv
            /\ \A d \in index : d.session_id # liveEv => d \in index']_vars
    /\ [][\A s \in Sessions : s \notin sessions /\ s \in sessions' =>
            liveOp' = "fetch_sessions" /\ s \in hubSess]_vars

\* s1 was removed while the hub still lists it, its delete returned Ok, and
\* a document of s2 indexed before is still in the index
C23_Witness ==
    /\ liveOp = "delete_session_documents"
    /\ liveEv = "s1"
    /\ "s1" \in hubSess
    /\ "s2" \in sessions
    /\ liveSeen = 3
    /\ index = {[msg |-> 2, session_id |-> "s2", session_name |-> <<"s2">>]}

\* ------------------------------------------------------------------------
\* Claims on the token manager
\* ------------------------------------------------------------------------

\* C24: when the last stream ended because the hub refused its token, the
\* stream is reopened only with another token.
C24_RefusedTokenNotReused ==
    [][esPc = "jwt" /\ esPc' = "stream" /\ esFail = "auth" => esTok' # esTok]_vars

\* the part of C24 on a token refused JWT_REFRESH_SECS or more after it was
\* obtained
C24_OldTokenNotReused ==
    [][esPc = "jwt" /\ esPc' = "stream" /\ esFail = "auth"
        /\ jwtAge >= JWT_REFRESH_SECS => esTok' # esTok]_vars

\* ------------------------------------------------------------------------
\* Claims on the search
\* ------------------------------------------------------------------------

\* the engine's hits of session sid, by position
HitsOfSession(sid) == {k \in DOMAIN hits : hits[k].session_id = sid}

\* ranking score plus name boost of the k-th hit of the engine
AdjustedScore(k) ==
    hits[k].ranking_score
        + compute_name_boost(hits[k].session_name, to_lowercase(query))

\* C25: the hits of a response are of pairwise different sessions, each is a
\* hit of the engine whose adjusted score is the highest of its session, the
\* scores do not increase along the response, and of two neighbours of equal
\* score the first has at least as many matched chunks.
C25_SearchGrouping ==
    searchPc = "done" =>
        /\ \A i, j \in DOMAIN response :
              i # j => response[i].session_id # response[j].session_id
        /\ \A i \in DOMAIN response :
              /\ response[i].n \in HitsOfSession(response[i].session_id)
              /\ response[i].score = AdjustedScore(response[i].n)
              /\ \A k \in HitsOfSession(response[i].session_id) :
                    AdjustedScore(k) <= response[i].score
        /\ \A i \in 1..(Len(response) - 1) :
              /\ response[i].score >= response[i + 1].score
              /\ response[i].score = response[i + 1].score =>
                    Cardinality(HitsOfSession(response[i].session_id))
                        >= Cardinality(HitsOfSession(response[i + 1].session_id))

\* two sessions of equal adjusted score, the one with two matched chunks
\* first; its best hit is the second hit of the engine, which the name boost
\* lifts over the first
C25_Witness ==
    /\ searchPc = "done"
    /\ Len(response) = 2
    /\ response[1].score = response[2].score
    /\ Cardinality(HitsOfSession(response[1].session_id)) = 2
    /\ response[1].n = 2
    /\ hits[1].session_id = response[1].session_id
    /\ hits[2].ranking_score < hits[1].ranking_score

\* the tokens of a text as spans <<first, last>>: the longest runs without a
\* separator
TokenSpans(q) ==
    {sp \in (DOMAIN q) \X (DOMAIN q) :
        /\ sp[1] <= sp[2]
        /\ \A i \in sp[1]..sp[2] : ~IsSeparator(q[i])
        /\ sp[1] = 1 \/ IsSeparator(q[sp[1] - 1])
        /\ sp[2] = Len(q) \/ IsSeparator(q[sp[2] + 1])}

\* the spans of more than two bytes
LongSpans(q) == {sp \in TokenSpans(q) : Utf8Len(SubSeq(q, sp[1], sp[2])) > 2}

\* the spans of long whose text occurs in the lower-cased name
MatchedSpans(name, q, long) ==
    {sp \in long :
        LET t == SubSeq(q, sp[1], sp[2])
        IN  \E k \in 0..(Len(name) - Len(t)) :
                \A i \in 1..Len(t) : LowerChar(name[k + i]) = t[i]}

\* the boost of a name satisfies the law of C29 under the lower-cased query q
\* whose long spans are long
BoostLaw(name, boost, q, long) ==
    /\ 0 <= boost /\ boost <= NAME_BOOST
    /\ (name = <<>> \/ long = {}) => boost = 0
    /\ (name # <<>> /\ long # {}) =>
          boost * Cardinality(long)
              = NAME_BOOST * Cardinality(MatchedSpans(name, q, long))

\* C29: the name boost is 0.02 times the share of the query's tokens of more
\* than two bytes that occur in the lower-cased session name, between 0 and
\* 0.02, and 0 for an empty name or a query without such a token; so for
\* every name under the query of the state, and for the boost inside the
\* score of every best hit.
C29_NameBoost ==
    LET q    == to_lowercase(query)
        long == LongSpans(q)
    IN  /\ \A name \in Names : BoostLaw(name, compute_name_boost(name, q), q, long)
        /\ \A sid \in DOMAIN groups :
              LET best == groups[sid].best_hit
              IN  BoostLaw(best.session_name,
                           best.score - hits[best.n].ranking_score, q, long)

\* a best hit boosted by two thirds of 0.02: of the three tokens of the query
\* the one of a single three-byte character and one more occur in its name
C29_Witness ==
    /\ Cardinality(LongSpans(to_lowercase(query))) = 3
    /\ \E sp \in LongSpans(to_lowercase(query)) : sp[1] = sp[2]
    /\ \E sid \in DOMAIN groups :
          LET best == groups[sid].best_hit
          IN  3 * (best.score - hits[best.n].ranking_score) = 2 * NAME_BOOST

\* ------------------------------------------------------------------------
\* Claims on the chunker
\* ------------------------------------------------------------------------

\* the list chunk_messages gets for session s, and the chunks it returned
ChunkerInput(s) == SessionMsgs(messages, s)
ChunkerOutput(s) == SelectSeq(all_chunks, LAMBDA c : c.session_id = s)

\* the flattened texts of a list of messages, and those that are not empty
FlatTexts(L) == [k \in DOMAIN L |-> flatten_segments(L[k])]
FullTexts(L) == SelectSeq(FlatTexts(L), LAMBDA t : t # <<>>)

\* the characters of the texts of a list, added up
RECURSIVE TotalChars(_)
TotalChars(texts) ==
    IF texts = <<>> THEN 0 ELSE CharCount(Head(texts)) + TotalChars(Tail(texts))

\* the chunks are one chunk, of index 0 and message id mid, that holds the
\* blocks of every message of L
OneChunkOf(chunks, L, mid) ==
    /\ Len(chunks) = 1
    /\ chunks[1].chunk_index = 0
    /\ chunks[1].message_id = mid
    /\ \A k \in DOMAIN L :
          BlocksOf(chunks[1].text, L[k].message_id)
              = BlocksOf(flatten_segments(L[k]), L[k].message_id)

\* C27, as stated: a list of messages of one session whose flattened texts
\* total at most 1500 characters comes back as one chunk, of index 0 and with
\* the first message's id, that contains all of them; here for the lists in
\* which every message has a text.
C27_OneChunkUpToTarget ==
    \A s \in Sessions :
       LET L == ChunkerInput(s)
       IN  (/\ L # <<>>
            /\ FullTexts(L) = FlatTexts(L)
            /\ TotalChars(FlatTexts(L)) <= TARGET_CHUNK_CHARS)
               => OneChunkOf(ChunkerOutput(s), L, L[1].message_id)

\* C27, amended: when some message of the list has a text and the texts that
\* are not empty, joined by one newline between neighbours, have at most 1500
\* characters, the list comes back as one chunk, of index 0 and with the id
\* of the first message that has a text, whose text is that join.
C27_OneChunkUpToTargetJoined ==
    \A s \in Sessions :
       LET L    == ChunkerInput(s)
           full == SelectSeq(L, LAMBDA m : flatten_segments(m) # <<>>)
       IN  (full # <<>>
              /\ TotalChars(FlatTexts(full)) + Len(full) - 1 <= TARGET_CHUNK_CHARS)
               => /\ OneChunkOf(ChunkerOutput(s), L, full[1].message_id)
                  /\ CharCount(ChunkerOutput(s)[1].text)
                        = TotalChars(FlatTexts(full)) + Len(full) - 1

\* two messages of one session whose texts with the newline between them
\* have exactly 1500 characters, in one chunk
C27_Witness ==
    /\ syncPc = "done"
    /\ \E s \in Sessions :
          /\ Len(FullTexts(ChunkerInput(s))) = 2
          /\ Len(ChunkerOutput(s)) = 1
          /\ CharCount(ChunkerOutput(s)[1].text) = TARGET_CHUNK_CHARS

\* the message with id mid
MessageOf(mid) == CHOOSE m \in SeqRange(messages) : m.message_id = mid

\* the messages merged into a chunk: those with a block in its text
MergedInto(c) ==
    {m \in SeqRange(messages) : BlocksOf(c.text, m.message_id) # <<>>}

\* C28, as stated: a chunk has role user when some segment of some message
\* merged into it has role user, and otherwise the role of the first segment
\* of its first message.
C28_ChunkRole ==
    \A k \in 1..Len(all_chunks) :
       LET c == all_chunks[k]
       IN  c.role =
              IF \E m \in MergedInto(c) :
                    \E i \in DOMAIN m.segments : m.segments[i].role = "user"
              THEN "user"
              ELSE MessageOf(c.message_id).segments[1].role

\* the role of a chunk is user when some segment of its first message has
\* role user, and otherwise the role of that message's first segment
C28_RoleOfFirstMessage ==
    \A k \in 1..Len(all_chunks) :
       LET c == all_chunks[k]
           first == MessageOf(c.message_id)
       IN  c.role =
              IF \E i \in DOMAIN first.segments : first.segments[i].role = "user"
              THEN "user"
              ELSE first.segments[1].role

\* ------------------------------------------------------------------------
\* Claims on process_messages called twice
\* ------------------------------------------------------------------------

\* how often id is the id of a document of docs
IdCount(docs, id) == Cardinality({i \in DOMAIN docs : docs[i].id = id})

\* the ids of two lists of documents are the same multiset
SameIdBag(a, b) ==
    \A id \in {a[i].id : i \in DOMAIN a} \cup {b[i].id : i \in DOMAIN b} :
       IdCount(a, id) = IdCount(b, id)

C30_TruncateStr ==
    (tsPc = "done" /\ ts_max_chars >= 2) =>
        LET n    == ts_max_chars
            half == n \div 2
            len  == Len(ts_s)
        IN  /\ Len(ts_out) <= n + 3
            /\ len <= n => ts_out = ts_s
            /\ len > n =>
                  /\ Len(ts_out) = 2 * half + 3
                  /\ \A i \in 1..half :
                        /\ ts_out[i] = ts_s[i]
                        /\ ts_out[half + 3 + i] = ts_s[len - half + i]
                  /\ \A i \in 1..3 : ts_out[half + i] = "."

\* a string of five characters, three-byte ones among them, cut at an odd
\* max_chars of 3: one character, the dots, one character
C30_Witness ==
    /\ tsPc = "done"
    /\ ts_max_chars = 3
    /\ Len(ts_s) = 5
    /\ ts_s[1] = Han
    /\ ts_s[5] = "b"
    /\ ts_out = <<Han, ".", ".", ".", "b">>

\* a string of two three-byte characters under max_chars 2 comes back whole
C30_MultiByteKept ==
    (tsPc = "done" /\ ts_s = <<Han, Han>> /\ ts_max_chars = 2) => ts_out = ts_s

\* ------------------------------------------------------------------------
\* Claims on the opening of a tunnel
\* ------------------------------------------------------------------------

\* the first frame submitted for an id after its TunnelOpen is tunnel:ready
\* or the tunnel:error of the failed dial, and tunnel:ready precedes every
\* tunnel:data, tunnel:close and tunnel:error of a pump
ReadyFirst(t) ==
    /\ tunFrames[t] # <<>> => tunFrames[t][1] \in {"ready", "connect_error"}
    /\ \A i \in DOMAIN tunFrames[t] :
          tunFrames[t][i] \in {"data", "close", "error"} =>
             \E j \in 1..(i - 1) : tunFrames[t][j] = "ready"

\* a handle enters the map in the step that submits tunnel:ready, and not
\* after the tunnel:error of a failed dial
StoredAfterReady(t) ==
    (t \notin tunnels /\ t \in tunnels') =>
        /\ tunFrames'[t] # <<>>
        /\ tunFrames'[t][Len(tunFrames'[t])] = "ready"
        /\ Count(tunFrames'[t], "connect_error") = 0

\* C31: for every TunnelOpen the first frame submitted for the tunnel is
\* tunnel:ready or the tunnel:error of the failed dial; tunnel:ready precedes
\* every tunnel:data, tunnel:close and tunnel:error of the tunnel; a handle is
\* stored only after tunnel:ready was submitted, never after a failed dial.
C31_ReadyBeforeAnyFrame ==
    /\ [](\A t \in Tunnels : ReadyFirst(t))
    /\ [][\A t \in Tunnels : StoredAfterReady(t)]_vars

\* a handle is stored only in the step that submits tunnel:ready
C31_HandleOnlyAfterReady == [][\A t \in Tunnels : StoredAfterReady(t)]_vars

\* while the manager dials for an id that has no handle, no frame of the id
\* is submitted, and the frames of an id opened without a handle begin with
\* tunnel:ready or the tunnel:error of the dial
C31_QuietWhileDialing ==
    (mgr = "opening" /\ mgrEv.id \notin tunnels) => tunFrames[mgrEv.id] = <<>>

\* ------------------------------------------------------------------------
\* C40: a tunnel:open event is dialled only with a valid port, and to that port
\* ------------------------------------------------------------------------

\* the port the payload names, when it is an integer from 1 to 65535
ValidPort(data) ==
    data.port.kind = "int" /\ data.port.v >= 1 /\ data.port.v <= 65535

\* C40: a tunnel:open event leads to a dial only when its tunnelId is
\* non-empty and its port is an integer from 1 to 65535, the dial goes to
\* exactly that port, and an event with a port outside the range is ignored
C40_DialOnlyValidPort ==
    po_dial # <<>> =>
        /\ po_data.tunnelId.kind = "string" /\ po_data.tunnelId.s # ""
        /\ ValidPort(po_data)
        /\ po_dial[1].port = po_data.port.v

\* what the code guarantees: a port in 1..65535 is dialled unchanged, an
\* empty or missing tunnelId is never dialled, and every dial goes to the
\* payload's port modulo 65536
C40_ValidPortDialledUnchanged ==
    po_dial # <<>> =>
        /\ po_data.tunnelId.kind = "string" /\ po_data.tunnelId.s # ""
        /\ po_data.port.kind = "int" /\ po_data.port.v >= 1
        /\ po_dial[1].port = po_data.port.v % 65536
        /\ po_dial[1].port \in 1..65535
        /\ ValidPort(po_data) => po_dial[1].port = po_data.port.v

\* a port in range was dialled
C40_Witness ==
    po_dial # <<>> /\ ValidPort(po_data) /\ po_data.port.v = 8080

\* ------------------------------------------------------------------------
\* C32: a window whose embed call fails is skipped, the later ones are not
\* ------------------------------------------------------------------------

\* the number of windows of the call's chunks
WindowCount(chunks) == (Len(chunks) + EMBED_BATCH_SIZE - 1) \div EMBED_BATCH_SIZE

\* the ids of the documents of window w (the first is window 1)
WindowIdsOf(chunks, w) ==
    {DocId(chunks[i]) : i \in {j \in DOMAIN chunks :
        (w - 1) * EMBED_BATCH_SIZE < j /\ j <= w * EMBED_BATCH_SIZE}}

IndexIds(idx) == {d.id : d \in idx}

\* the first call has returned and none of its add_documents calls failed:
\* every window was embedded, the windows whose embed failed left no document
\* in the index, the others left all of theirs, and the call returned Ok
SkippedWindows ==
    LET chunks == AllChunks(rpFirst)
    IN  (rpRet[1] # "none" /\ Count(rpAdd[1], "err") = 0) =>
           /\ Len(rpEmbed[1]) = WindowCount(chunks)
           /\ rpRet[1] = "ok"
           /\ \A w \in 1..WindowCount(chunks) :
                 IF rpEmbed[1][w] = "err"
                 THEN WindowIdsOf(chunks, w) \cap IndexIds(rpAfter[1]) = {}
                 ELSE WindowIdsOf(chunks, w) \subseteq IndexIds(rpAfter[1])

\* the step in which embed fails: nothing is upserted, and the call goes on
\* with the embed of the next window or, after the last window, returns Ok
EmbedFailureStep ==
    (rpPc = "embed" /\ rpEmbed'[rpRun] = Append(rpEmbed[rpRun], "err")) =>
        /\ rpIndex' = rpIndex
        /\ rpBuilt' = rpBuilt
        /\ IF rpStart + EMBED_BATCH_SIZE < Len(rpChunks)
           THEN rpPc' = "embed" /\ rpRun' = rpRun
                    /\ rpStart' = rpStart + EMBED_BATCH_SIZE
           ELSE rpRet'[rpRun] = "ok"

\* C32: if the embed call for one window fails, no document of that window
\* is upserted, every later window is still embedded and upserted, and
\* process_messages returns success
C32_EmbedFailureSkipsWindow ==
    /\ []SkippedWindows
    /\ [][EmbedFailureStep]_vars

\* the embed of the first of two windows failed, the second was upserted and
\* the call returned Ok
C32_Witness ==
    /\ rpRet[1] = "ok"
    /\ rpEmbed[1] = <<"err", "ok">>
    /\ rpAdd[1] = <<"ok">>
    /\ rpAfter[1] # {}

\* ------------------------------------------------------------------------
\* C33: the live loop handles the events in the order of the stream
\* ------------------------------------------------------------------------

\* the events of the handled list
DoneEvents == [i \in DOMAIN sse_done |-> sse_done[i].event]

\* handled, in handling and waiting, in this order, are exactly the events
\* the handler was called with
InStreamOrder == DoneEvents \o sse_cur \o sse_rx = sse_tx_log

\* the step that ends an arm in failure leaves the loop at rx.recv()
FailureKeepsLoop ==
    (Len(sse_done') = Len(sse_done) + 1
        /\ sse_done'[Len(sse_done')].outcome = "err") =>
       /\ sse_cur' = <<>>
       /\ sse_rx' = sse_rx

\* C33: in live mode the events are processed one at a time in exactly the
\* order in which the stream delivered them, none is dropped or reordered
\* by the queue between the handler and the loop, and a failure while
\* processing one event does not stop the loop: every later event is still
\* processed
C33_LiveOrder ==
    /\ []InStreamOrder
    /\ [][FailureKeepsLoop]_vars
    /\ \A i \in 1..MaxStream :
          (Len(sse_tx_log) >= i) ~> (Len(sse_done) >= i)

\* an event was handled after the arm of the event before it had failed,
\* while a third was waiting in the channel
C33_Witness ==
    /\ Len(sse_done) = 2
    /\ sse_done[1].outcome = "err"
    /\ sse_done[2].event = sse_tx_log[2]
    /\ sse_rx # <<>>

\* ------------------------------------------------------------------------
\* C34: the requests of the catch-up loop
\* ------------------------------------------------------------------------

\* a page is completed and the loop goes to its next fetch: the request of the
\* last fetch was (since, cursor), the one of the next is (since', cursor')
NextIteration ==
    /\ sse = "none"
    /\ syncPc \in {"fetch", "embed", "upsert"}
    /\ syncPc' = "fetch"

\* the response to a fetch had no message: the loop ends
EmptyPageEnds ==
    (syncPc = "fetch" /\ cursor >= Len(hubPages) /\ syncPc' # syncPc) =>
        syncPc' \in {"done", "failed"}

\* C34: in the catch-up loop every fetch after the first is issued with the
\* last_sync_ts and the cursor as advanced by the previous page, so the same
\* (since, cursor) request is never issued twice in a row, and the loop ends
\* as soon as a page is empty or reports has_more = false
C34_FetchAdvances ==
    /\ [][NextIteration =>
             /\ since' = st_last_sync_ts'
             /\ cursor' = st_cursor'
             /\ <<since', cursor'>> # <<since, cursor>>
             /\ HasMore(cursor)]_vars
    /\ [][EmptyPageEnds]_vars

\* the same request is never issued twice in a row
C34_NoRepeatedRequest ==
    [][NextIteration => <<since', cursor'>> # <<since, cursor>>]_vars

\* what the loop does: every fetch of a pass is issued with the since read
\* before the loop, the cursor is the one of the last response that carried
\* one, and the loop fetches again only after a page with messages and
\* has_more = true
C34_LoopEnds ==
    /\ [][NextIteration =>
             /\ since' = since
             /\ cursor' = st_cursor'
             /\ cursor' \in {cursor, cursor + 1}
             /\ HasMore(cursor)]_vars
    /\ [][EmptyPageEnds]_vars

\* ------------------------------------------------------------------------
\* C35: subscribe_events never returns and skips what it cannot decode
\* ------------------------------------------------------------------------

\* the places of the loop of subscribe_events; none is a return
InLoop == esPc \in {"jwt", "stream", "sleep"}

\* the stream is left only for the sleep, a failed token request leads to the
\* sleep, and the sleep leads to the next turn of the loop
LoopTurns ==
    /\ (esPc = "stream" /\ esPc' # "stream") => esPc' = "sleep"
    /\ (esPc = "jwt" /\ esPc' # "jwt") => esPc' \in {"stream", "sleep"}
    /\ (esPc = "sleep" /\ esPc' # "sleep") => esPc' = "jwt"

\* the handler is called for a decoded event and for nothing else, and an
\* item that is not an error leaves the stream open
ItemHandled ==
    esItems' # esItems =>
        /\ esCalls' = IF esLast' = "message" THEN esCalls + 1 ELSE esCalls
        /\ esPc' = "stream"
        /\ esFail' = esFail

\* C35: subscribe_events never returns: after every stream end, stream error
\* or failure to obtain a token it waits 5 seconds and starts the next turn
\* of its loop, which opens the stream again; a payload that cannot be
\* decoded is skipped without calling the handler and without closing the
\* stream
C35_NeverReturns ==
    /\ []InLoop
    /\ [][LoopTurns /\ ItemHandled]_vars
    /\ (esPc = "sleep") ~> (esPc = "jwt")

\* a payload that did not decode was skipped, and the stream, which had been
\* opened again after a stream end, is still open
C35_Witness ==
    /\ esLast = "undecodable"
    /\ esPc = "stream"
    /\ esFail = "other"
    /\ esCalls = 1

\* ------------------------------------------------------------------------
\* C36: the ack-waiter map holds only calls in progress
\* ------------------------------------------------------------------------

\* emit_with_ack has been entered and has not returned
InFlight(c) == callPc[c] \in {"alloc", "send", "wait"}

\* C36: after an emit_with_ack call has returned for any reason the
\* ack-waiter map holds no entry for its id: the map contains only ids of
\* calls still in progress, so its size never exceeds the number of
\* in-flight calls
C36_WaitersInFlight ==
    /\ \A c \in Calls :
          (Returned(c) /\ callPc[c] # "idle") => callId[c] \notin DOMAIN ack_waiters
    /\ \A i \in DOMAIN ack_waiters : InFlight(ack_waiters[i])
    /\ Cardinality(DOMAIN ack_waiters) <= Cardinality({c \in Calls : InFlight(c)})

\* what holds: an entry is the id of the call that inserted it, that call is
\* in progress or ended without a reply, and a call that returned the reply
\* has no entry
C36_WaitersUnanswered ==
    /\ \A i \in DOMAIN ack_waiters :
          /\ callId[ack_waiters[i]] = i
          /\ callPc[ack_waiters[i]] \in {"send", "wait", "timeout", "write_error"}
    /\ \A c \in Calls : callPc[c] = "ok" => callId[c] \notin DOMAIN ack_waiters

\* ------------------------------------------------------------------------
\* C37: the index and the composition of the batches
\* ------------------------------------------------------------------------

\* both calls are over and every embed and add_documents call succeeded
BothIndexed ==
    /\ rpPc = "done"
    /\ \A r \in Runs : rpRet[r] = "ok" /\ Count(rpEmbed[r], "err") = 0

\* the index after one call on msgs
IndexOnce(msgs) == {Document(AllChunks(msgs)[i]) : i \in DOMAIN AllChunks(msgs)}

\* the documents of the index that carry text of message mid
Carrying(mid) == {d \in rpIndex : BlocksOf(d.text, mid) # <<>>}

\* C37: the documents in the index do not depend on how messages are split
\* into batches: when a message that was already indexed is processed again
\* in a batch of different composition, the index ends with the same
\* documents as after processing it once, and never holds two documents with
\* different ids that carry the same message's text
C37_BatchIndependent ==
    BothIndexed =>
       /\ rpIndex = IndexOnce(rpMsgs)
       /\ \A k \in DOMAIN rpMsgs :
             \A d, e \in Carrying(rpMsgs[k].message_id) : d.id = e.id

\* the second part alone
C37_NoTextTwice ==
    BothIndexed =>
       \A k \in DOMAIN rpMsgs :
          \A d, e \in Carrying(rpMsgs[k].message_id) : d.id = e.id

\* what holds: the documents of the last batch are in the index as one call
\* on it builds them, and a batch of the same composition adds nothing
C37_LastBatchIndexed ==
    BothIndexed =>
       /\ IndexOnce(rpMsgs) \subseteq rpIndex
       /\ rpFirst = rpMsgs => rpIndex = IndexOnce(rpMsgs)

\* ------------------------------------------------------------------------
\* C38: live mode leaves the persisted sync state alone
\* ------------------------------------------------------------------------

\* messages_cursor and last_sync_ts as persisted
SyncState == <<st_cursor, st_last_sync_ts>>

\* process_messages returns Ok in this step: the page had no chunk, or the
\* last window is over without a failure of add_documents
ProcessReturnsOk ==
    \/ syncPc = "fetch" /\ cursor < Len(hubPages)
           /\ AllChunks(hubPages[cursor + 1]) = <<>>
    \/ syncPc \in {"embed", "upsert"}
           /\ batch_start + EMBED_BATCH_SIZE >= Len(all_chunks)
           /\ syncPc' \notin {"failed", "upsert"}

\* C38: live mode never changes the persisted sync state: processing any
\* sequence of events leaves messages_cursor and last_sync_ts unchanged; only
\* catch-up writes them, and only after process_messages returned success
\* for the page
C38_LiveKeepsSyncState ==
    /\ [][sse = "open" \/ sse' = "open" => SyncState' = SyncState]_vars
    /\ [][SyncState' # SyncState =>
             /\ sse = "none"
             /\ runLog[Len(runLog)] = "initial_sync"
             /\ ProcessReturnsOk
             /\ syncPc' \in {"fetch", "done"}]_vars

\* live mode has handled its events, a message among them was indexed, and
\* the sync state is the one catch-up left for the last page
C38_Witness ==
    /\ sse = "open"
    /\ syncPc = "live"
    /\ sseSeen = MaxEvents
    /\ SeqRange(built) \cap engine # {}
    /\ Len(hubPages) = 2
    /\ st_cursor = 2
    /\ st_last_sync_ts = LastTs(2)

\* ------------------------------------------------------------------------
\* C39: a local peer that stops reading and the tunnel manager
\* ------------------------------------------------------------------------

\* the manager waits in write_tx.send of the tunnel of its event
MgrWaits == mgr = "sending"

\* the send the manager waits in can complete: the channel has room, or the
\* write task has ended
SendCanEnd ==
    \/ wrPump[mgrEv.id] # "running"
    \/ Len(wchan[mgrEv.id]) < WriteChanCap

\* C39: a tunnel whose local TCP peer stops reading cannot stall the tunnel
\* manager: while the tunnel's write channel is full the manager still gets
\* to its next events (TunnelData, TunnelClose, Disconnected)
C39_ManagerNotStalled == MgrWaits ~> ~MgrWaits

\* the manager waits only in the send of a TunnelData of a tunnel it has a
\* handle of, it starts to wait only when the channel is full and the write
\* task runs, and whenever the peer has taken a buffer or the write task has
\* ended the send can complete, after which the manager is back at recv
C39_StalledWhileFull ==
    /\ [](MgrWaits => mgrEv.type = "TunnelData" /\ mgrEv.id \in tunnels)
    /\ [][~MgrWaits /\ MgrWaits' => ~SendCanEnd']_vars
    /\ [](MgrWaits /\ SendCanEnd => ENABLED MgrSendDone)
    /\ [](MgrWaits /\ ~SendCanEnd => ~ENABLED ManagerStep)
    /\ [][MgrWaits /\ ~MgrWaits' => SendCanEnd \/ mgr' = "none"]_vars

\* the manager waits in the send and the peer has just taken a buffer
C39_Witness ==
    /\ MgrWaits
    /\ wrPump[mgrEv.id] = "running"
    /\ Len(wchan[mgrEv.id]) < WriteChanCap

=============================================================================
